---------------------------- MODULE Spec2Model ----------------------------
(***************************************************************************)
(* A model of the plan pipeline of the pharmacy opportunity calculator:    *)
(*   - generatePayload        (js/calculations.js)                         *)
(*   - parseAIResponse        (netlify/functions/generate-plan*.js)        *)
(*   - validateAndCorrectPlan (js/aiIntegration.js)                        *)
(*   - the job handler, the upstream call and the job store                *)
(*                                                                         *)
(* Amounts of money are integers.  A monthly amount that the code keeps    *)
(* unrounded (additionalValue / 12) is kept here in twelfths of a currency *)
(* unit, so that it is exact; names ending in 12 are in twelfths.          *)
(***************************************************************************)
EXTENDS Integers, Sequences, FiniteSets, TLC

VARIABLES
    rawData,          \* generatePayload: the records collected so far
    userPreferences,  \* generatePayload: [maxInvestment]
    idScheme,         \* how the collected records get their ids
    genResult,        \* "none" (not called yet) | "null" | "payload"
    payload,          \* the object generatePayload returned
    aiResponse,       \* parseAIResponse: the text the upstream returned
    corruption,       \* what happened to that text on its way: [cut, applied]
    recovered,        \* what parseAIResponse handed to its caller
    valPayload,       \* validateAndCorrectPlan: originalPayload
    valSource,        \* where that payload comes from
    valPlan,          \* validateAndCorrectPlan: plan
    validation,       \* [done, result]: what validateAndCorrectPlan returned
    deployment,       \* the server: [backend, handler, apiKey]
    plans,            \* the store: the record under plans/{jobId}
    job,              \* the server: handler and worker of each job
    currentPayload,   \* the client: window.currentPayload
    client            \* the client: pollForPlan of each job

genVars == <<rawData, userPreferences, idScheme, genResult, payload>>

recVars == <<aiResponse, corruption, recovered>>

valVars == <<valPayload, valSource, valPlan, validation>>

jobVars == <<deployment, plans, job>>

cliVars == <<currentPayload, client>>

vars == <<genVars, recVars, valVars, jobVars, cliVars>>

\* what the steps of one component leave alone
GenFrame == UNCHANGED <<recVars, valVars, jobVars, cliVars>>

RecFrame == UNCHANGED <<genVars, valVars, jobVars, cliVars>>

ValFrame == UNCHANGED <<genVars, recVars, jobVars, cliVars>>

JobFrame == UNCHANGED <<genVars, recVars, valVars, cliVars>>

CliFrame == UNCHANGED <<genVars, recVars, valVars, deployment, job>>

---------------------------------------------------------------------------
(* Bounds of the model and inputs                                          *)

MaxRecords == 9

\* annual additionalValue of an input record; 246 / 12 = 20.5 rounds up
AdditionalValues == {0, 246, 12000}

\* userPreferences.maxInvestment (0 when the user entered nothing)
MaxInvestments == {0, 55000}

\* ids of the input: "unique" gives record i the id i, "repeating" reuses
\* the ids 1..IdCycle cyclically (two records then carry the same id)
IdSchemes == {"unique", "repeating"}

IdCycle == 6

---------------------------------------------------------------------------
(* JavaScript numbers                                                      *)

\* Math.round(a / b) for b > 0: halves round towards +Infinity
RoundDiv(a, b) == (2 * a + b) \div (2 * b)

\* Math.round(x12 / 12) as it would be with Math.floor
MathFloor12(x12) == x12 \div 12

\* Math.round(x12 / 12)
MathRound12(x12) == RoundDiv(x12, 12)

Abs(x) == IF x < 0 THEN -x ELSE x

Max(a, b) == IF a >= b THEN a ELSE b

Min(a, b) == IF a <= b THEN a ELSE b

\* a JavaScript number with one decimal (x.toFixed(1)), Infinity or null
Num(t) == [kind |-> "number", tenths |-> t]

JsInfinity == [kind |-> "Infinity", tenths |-> 0]

JsNull == [kind |-> "null", tenths |-> 0]

---------------------------------------------------------------------------
(* generatePayload                                                         *)

TopIncluded == 6

TopDriversMax == 8

DefaultMaxInvestment == 150000

\* rawData.map(...): monthlyRevenueImpact = additionalValue / 12, unrounded
ProcessRecord(service) ==
    [id |-> service.id,
     monthlyRevenueImpact12 |-> service.additionalValue,
     annualRevenueImpact |-> service.additionalValue]

processedDataOf(raw) == [i \in 1..Len(raw) |-> ProcessRecord(raw[i])]

\* InsertRankedTiesReversed is the insertion of a sort that is not stable
\* (an item goes before the items of its own impact).
\* Array.prototype.sort with (a, b) => b.impact - a.impact is stable:
\* an item goes after every item whose impact is at least its own
RECURSIVE InsertRankedTiesReversed(_, _)
InsertRankedTiesReversed(sorted, item) ==
    IF sorted = <<>> THEN <<item>>
    ELSE IF Head(sorted).monthlyRevenueImpact12 > item.monthlyRevenueImpact12
         THEN <<Head(sorted)>> \o InsertRankedTiesReversed(Tail(sorted), item)
         ELSE <<item>> \o sorted

RECURSIVE InsertRanked(_, _)
InsertRanked(sorted, item) ==
    IF sorted = <<>> THEN <<item>>
    ELSE IF Head(sorted).monthlyRevenueImpact12 >= item.monthlyRevenueImpact12
         THEN <<Head(sorted)>> \o InsertRanked(Tail(sorted), item)
         ELSE <<item>> \o sorted

RECURSIVE SortByImpact(_)
SortByImpact(items) ==
    IF items = <<>> THEN <<>>
    ELSE InsertRanked(SortByImpact(SubSeq(items, 1, Len(items) - 1)),
                      items[Len(items)])

\* rankedByImpact.slice(0, 6).map(d => d.id)
Top6Ids(ranked) ==
    {ranked[i].id : i \in 1..Min(TopIncluded, Len(ranked))}

\* item.included = top6Ids.includes(item.id)
MarkIncluded(ranked) ==
    [i \in 1..Len(ranked) |->
        [id |-> ranked[i].id,
         monthlyRevenueImpact12 |-> ranked[i].monthlyRevenueImpact12,
         annualRevenueImpact |-> ranked[i].annualRevenueImpact,
         included |-> ranked[i].id \in Top6Ids(ranked)]]

\* reduce((sum, d) => sum + d.monthlyRevenueImpact, 0)
RECURSIVE SumImpact12(_)
SumImpact12(items) ==
    IF items = <<>> THEN 0
    ELSE Head(items).monthlyRevenueImpact12 + SumImpact12(Tail(items))

\* the filter as it would be if it kept every driver
FilterKeepingAll(items) == items

\* filter(d => d.included)
RECURSIVE FilterIncluded(_)
FilterIncluded(items) ==
    IF items = <<>> THEN <<>>
    ELSE IF Head(items).included
         THEN <<Head(items)>> \o FilterIncluded(Tail(items))
         ELSE FilterIncluded(Tail(items))

\* overallFinancials as it would be if the ROI were taken on the monthly
\* lift and the payback on the annual lift
overallFinancialsPerMonth(investment, monthlyLift12) ==
    [roi |-> IF investment > 0
             THEN Num(RoundDiv(monthlyLift12 * 1000, 12 * investment))
             ELSE JsNull,
     paybackMonths |-> IF investment > 0 /\ monthlyLift12 > 0
                       THEN Num(RoundDiv(investment * 10, monthlyLift12))
                       ELSE JsInfinity,
     monthlyRevenueLift |-> MathRound12(monthlyLift12),
     annualRevenueLift |-> monthlyLift12,
     totalInvestment |-> investment]

\* the overallFinancials closure
overallFinancials(investment, monthlyLift12) ==
    LET annualLift == monthlyLift12
        roiNumeric ==
            IF investment > 0 /\ monthlyLift12 > 0
            THEN Num(RoundDiv(annualLift * 1000, investment))
            ELSE IF investment > 0 /\ monthlyLift12 = 0
                 THEN Num(0)
                 ELSE JsNull
        paybackMonths ==
            IF investment > 0 /\ monthlyLift12 > 0
            THEN Num(RoundDiv(investment * 120, monthlyLift12))
            ELSE JsInfinity
    IN  [roi |-> roiNumeric,
         paybackMonths |-> paybackMonths,
         monthlyRevenueLift |-> MathRound12(monthlyLift12),
         annualRevenueLift |-> annualLift,
         totalInvestment |-> investment]

\* the payload generatePayload returns for a non-empty rawData
generatePayload(prefs, raw) ==
    LET processedData == processedDataOf(raw)
        totalMonthlyDelta12 == SumImpact12(processedData)
        rankedByImpact == MarkIncluded(SortByImpact(processedData))
        topDrivers ==
            SubSeq(rankedByImpact, 1, Min(TopDriversMax, Len(rankedByImpact)))
        otherItemsCount == Len(processedData) - Len(topDrivers)
        otherMonthlyImpact12 == totalMonthlyDelta12 - SumImpact12(topDrivers)
        includedDrivers == FilterIncluded(topDrivers)
        includedMonthlyDelta12 == SumImpact12(includedDrivers)
        investment == prefs.maxInvestment
    IN  [metadata |-> [financial_mode |-> "revenue_only"],
         summaryMetrics |->
            [monthlyRevenueDelta |-> MathRound12(includedMonthlyDelta12),
             estimatedAnnualDelta |-> includedMonthlyDelta12,
             itemCount |-> Len(processedData),
             totalInvestment |-> investment,
             computedFrom |->
                [i \in 1..Len(includedDrivers) |-> includedDrivers[i].id]],
         topDrivers |->
            [i \in 1..Len(topDrivers) |->
                [id |-> topDrivers[i].id,
                 monthlyRevenueImpact |->
                    MathRound12(topDrivers[i].monthlyRevenueImpact12),
                 annualRevenueImpact |-> topDrivers[i].annualRevenueImpact,
                 included |-> topDrivers[i].included]],
         overallFinancials |->
            overallFinancials(investment, includedMonthlyDelta12),
         otherItemsSummary |->
            [count |-> otherItemsCount,
             combinedMonthlyImpact |-> MathRound12(otherMonthlyImpact12),
             totalInvestment |-> investment],
         userInputs |-> [totalInvestment |-> investment],
         userPreferences |->
            [maxInvestment |->
                IF investment # 0 THEN investment ELSE DefaultMaxInvestment]]

\* the value of payload before generatePayload has returned one
NoPayload == generatePayload([maxInvestment |-> 0], <<>>)

---------------------------------------------------------------------------
(* Texts                                                                   *)
(*                                                                         *)
(* A text is a sequence of characters, each a one-character string.  Two   *)
(* runs that the code only ever handles as units are one element each:     *)
(* "FENCE" (the three backticks of a code fence) and "json" (the language  *)
(* tag after a fence).                                                     *)
(* Property names are abbreviated to one letter: "e" executive_summary,    *)
(* "p" plan, "f" financial_breakdown, "i" initiatives, "k" any other key.  *)

Whitespace == {" ", "\n"}

Digits == {"0", "1"}

\* the least element of a non-empty set of numbers
Least(set) == CHOOSE x \in set : \A y \in set : x <= y

\* the index of the first character in set at or after i, else Len(s) + 1
IndexOfAny(s, set, i) ==
    LET hits == {j \in i..Len(s) : s[j] \in set}
    IN  IF hits = {} THEN Len(s) + 1 ELSE Least(hits)

\* the index of the first non-whitespace character at or after i
SkipWs(s, i) ==
    LET hits == {j \in i..Len(s) : s[j] \notin Whitespace}
    IN  IF hits = {} THEN Max(i, Len(s) + 1) ELSE Least(hits)

\* the index of the last character c at or before i, else 0
LastIndexOf(s, c, i) ==
    LET hits == {j \in 1..i : s[j] = c}
    IN  IF hits = {} THEN 0 ELSE CHOOSE x \in hits : \A y \in hits : y <= x

Includes(s, c) == \E i \in 1..Len(s) : s[i] = c

\* String.prototype.repeat
Repeat(c, n) == [i \in 1..n |-> c]

---------------------------------------------------------------------------
(* parseAIResponse: cleaning                                               *)

\* the first two replace calls: a fence with the tag json and the
\* whitespace after it are removed
RECURSIVE StripFenceJson(_, _)
StripFenceJson(s, i) ==
    LET hits == {j \in i..(Len(s) - 1) : s[j] = "FENCE" /\ s[j + 1] = "json"}
    IN  IF hits = {} THEN SubSeq(s, i, Len(s))
        ELSE SubSeq(s, i, Least(hits) - 1)
             \o StripFenceJson(s, SkipWs(s, Least(hits) + 2))

\* the last two replace calls: a fence and the whitespace after it are
\* removed
RECURSIVE StripFence(_, _)
StripFence(s, i) ==
    LET fence == IndexOfAny(s, {"FENCE"}, i)
    IN  IF fence > Len(s) THEN SubSeq(s, i, Len(s))
        ELSE SubSeq(s, i, fence - 1) \o StripFence(s, SkipWs(s, fence + 1))

\* String.prototype.trim
TrimEnd(s) ==
    LET hits == {j \in 1..Len(s) : s[j] \notin Whitespace}
    IN  IF hits = {} THEN <<>>
        ELSE SubSeq(s, 1, CHOOSE x \in hits : \A y \in hits : y <= x)

Trim(s) == LET t == TrimEnd(s) IN SubSeq(t, SkipWs(t, 1), Len(t))

StripMarkup(s) == Trim(StripFence(StripFenceJson(s, 1), 1))

\* the match of an opening brace, anything, a closing brace: from the
\* first opening brace to the last closing brace
ExtractJson(s) ==
    LET first == IndexOfAny(s, {"{"}, 1)
        last == LastIndexOf(s, "}", Len(s))
    IN  IF first <= Len(s) /\ last > first
        THEN SubSeq(s, first, last) ELSE s

---------------------------------------------------------------------------
(* parseAIResponse: structural repair                                      *)

CountChar(s, c) == Cardinality({i \in 1..Len(s) : s[i] = c})

countBracesAndBrackets(text) ==
    [openCurly |-> CountChar(text, "{"),
     closeCurly |-> CountChar(text, "}"),
     openSquare |-> CountChar(text, "["),
     closeSquare |-> CountChar(text, "]")]

RECURSIVE trimTrailingChars(_, _, _)
trimTrailingChars(text, charToTrim, maxTrim) ==
    IF maxTrim > 0 /\ text # <<>> /\ text[Len(text)] = charToTrim
    THEN trimTrailingChars(SubSeq(text, 1, Len(text) - 1),
                           charToTrim, maxTrim - 1)
    ELSE text

BalanceCurly(text, counts) ==
    IF counts.openCurly > counts.closeCurly
    THEN text \o Repeat("}", counts.openCurly - counts.closeCurly)
    ELSE IF counts.openCurly < counts.closeCurly
         THEN trimTrailingChars(text, "}",
                                counts.closeCurly - counts.openCurly)
         ELSE text

BalanceSquare(text, counts) ==
    IF counts.openSquare > counts.closeSquare
    THEN text \o Repeat("]", counts.openSquare - counts.closeSquare)
    ELSE IF counts.openSquare < counts.closeSquare
         THEN trimTrailingChars(text, "]",
                                counts.closeSquare - counts.openSquare)
         ELSE text

\* the counts are taken once, on cleanedResponse, before either repair
AutoBalance(cleanedResponse) ==
    LET balanceCounts == countBracesAndBrackets(cleanedResponse)
    IN  BalanceSquare(BalanceCurly(cleanedResponse, balanceCounts),
                      balanceCounts)

---------------------------------------------------------------------------
(* JSON.parse                                                              *)
(*                                                                         *)
(* A parsed value is summarised by what the code reads of it: its kind,    *)
(* whether it is truthy, the length of an array, the members of an object  *)
(* (key and summary of the value; a repeated key keeps its last value).    *)

ParseFail ==
    [ok |-> FALSE, next |-> 0, kind |-> "none", truthy |-> FALSE,
     len |-> 0, members |-> <<>>]

Parsed(next, kind, truthy, len, members) ==
    [ok |-> TRUE, next |-> next, kind |-> kind, truthy |-> truthy,
     len |-> len, members |-> members]

\* the closing quote of the string that opens before i; 0 when a control
\* character (a raw newline) or the end of the text comes first
RECURSIVE ClosingQuote(_, _)
ClosingQuote(s, i) ==
    IF i > Len(s) \/ s[i] = "\n" THEN 0
    ELSE IF s[i] = "\"" THEN i ELSE ClosingQuote(s, i + 1)

ParseString(s, i) ==
    LET j == ClosingQuote(s, i + 1)
    IN  IF j = 0 THEN ParseFail
        ELSE Parsed(j + 1, "string", j > i + 1, j - i - 1, <<>>)

\* the index of the first non-digit at or after i
RECURSIVE SkipDigits(_, _)
SkipDigits(s, i) ==
    IF i <= Len(s) /\ s[i] \in Digits THEN SkipDigits(s, i + 1) ELSE i

\* digits; a number of several digits does not start with 0
ParseNumber(s, i) ==
    LET j == SkipDigits(s, i)
    IN  IF s[i] = "0" /\ j > i + 1 THEN ParseFail
        ELSE Parsed(j, "number", s[i] # "0", 0, <<>>)

RECURSIVE ParseValue(_, _), ParseElements(_, _, _), ParseMembers(_, _, _)

ParseArray(s, i) ==
    LET k == SkipWs(s, i + 1)
    IN  IF k <= Len(s) /\ s[k] = "]"
        THEN Parsed(k + 1, "array", TRUE, 0, <<>>)
        ELSE ParseElements(s, k, 0)

ParseObject(s, i) ==
    LET k == SkipWs(s, i + 1)
    IN  IF k <= Len(s) /\ s[k] = "}"
        THEN Parsed(k + 1, "object", TRUE, 0, <<>>)
        ELSE ParseMembers(s, k, <<>>)

ParseValue(s, i) ==
    IF i > Len(s) THEN ParseFail
    ELSE IF s[i] = "{" THEN ParseObject(s, i)
    ELSE IF s[i] = "[" THEN ParseArray(s, i)
    ELSE IF s[i] = "\"" THEN ParseString(s, i)
    ELSE IF s[i] \in Digits THEN ParseNumber(s, i)
    ELSE ParseFail

\* the elements of an array from the one at i on; count are parsed already
ParseElements(s, i, count) ==
    LET v == ParseValue(s, i)
        k == SkipWs(s, v.next)
    IN  IF ~v.ok \/ k > Len(s) THEN ParseFail
        ELSE IF s[k] = "," THEN ParseElements(s, SkipWs(s, k + 1), count + 1)
        ELSE IF s[k] = "]" THEN Parsed(k + 1, "array", TRUE, count + 1, <<>>)
        ELSE ParseFail

\* the members of an object from the one whose key starts at i on
ParseMembers(s, i, acc) ==
    IF i > Len(s) \/ s[i] # "\"" THEN ParseFail
    ELSE
      LET key == ParseString(s, i)
          c == SkipWs(s, key.next)
      IN  IF ~key.ok \/ c > Len(s) \/ s[c] # ":" THEN ParseFail
          ELSE
            LET v == ParseValue(s, SkipWs(s, c + 1))
                k == SkipWs(s, v.next)
                member == [key |-> SubSeq(s, i + 1, key.next - 2),
                           kind |-> v.kind, truthy |-> v.truthy,
                           len |-> v.len]
            IN  IF ~v.ok \/ k > Len(s) THEN ParseFail
                ELSE IF s[k] = ","
                     THEN ParseMembers(s, SkipWs(s, k + 1),
                                       Append(acc, member))
                ELSE IF s[k] = "}"
                     THEN Parsed(k + 1, "object", TRUE, 0,
                                 Append(acc, member))
                ELSE ParseFail

JSONparse(s) ==
    LET v == ParseValue(s, SkipWs(s, 1))
    IN  IF v.ok /\ SkipWs(s, v.next) = Len(s) + 1 THEN v ELSE ParseFail

Undefined == [key |-> <<>>, kind |-> "undefined", truthy |-> FALSE, len |-> 0]

\* plan[key]: the last member with that key, undefined when there is none
RECURSIVE Property(_, _)
Property(members, key) ==
    IF members = <<>> THEN Undefined
    ELSE IF members[Len(members)].key = key THEN members[Len(members)]
    ELSE Property(SubSeq(members, 1, Len(members) - 1), key)

---------------------------------------------------------------------------
(* parseAIResponse: textual repair heuristics                              *)

\* a comma, with the whitespace after it, is dropped before a closer
RECURSIVE RemoveTrailingCommas(_, _)
RemoveTrailingCommas(s, i) ==
    IF i > Len(s) THEN <<>>
    ELSE LET k == SkipWs(s, i + 1)
         IN  IF s[i] = "," /\ k <= Len(s) /\ s[k] \in {"}", "]"}
             THEN <<s[k]>> \o RemoveTrailingCommas(s, k + 1)
             ELSE <<s[i]>> \o RemoveTrailingCommas(s, i + 1)

\* the replace with a callback: a comma is put between two quotes
\* that only whitespace separates, unless a comma precedes the first quote
\* or a comma, a colon or the end of the text follows the second
RECURSIVE FixMissingCommas(_, _)
FixMissingCommas(s, i) ==
    IF i > Len(s) THEN <<>>
    ELSE LET k == SkipWs(s, i + 1)
         IN  IF s[i] = "\"" /\ k > i + 1 /\ k <= Len(s) /\ s[k] = "\""
             THEN (IF \/ (i > 1 /\ s[i - 1] = ",")
                      \/ k = Len(s)
                      \/ s[k + 1] \in {",", ":"}
                   THEN SubSeq(s, i, k)
                   ELSE <<"\"", ",", " ", "\"">>)
                  \o FixMissingCommas(s, k + 1)
             ELSE <<s[i]>> \o FixMissingCommas(s, i + 1)

\* a single-quoted run before a colon becomes double-quoted
RECURSIVE FixSingleQuotedKeys(_, _)
FixSingleQuotedKeys(s, i) ==
    IF i > Len(s) THEN <<>>
    ELSE LET j == IndexOfAny(s, {"'"}, i + 1)
         IN  IF s[i] = "'" /\ j < Len(s) /\ s[j + 1] = ":"
             THEN <<"\"">> \o SubSeq(s, i + 1, j - 1) \o <<"\"", ":">>
                  \o FixSingleQuotedKeys(s, j + 2)
             ELSE <<s[i]>> \o FixSingleQuotedKeys(s, i + 1)

\* a single-quoted run after a colon becomes double-quoted
RECURSIVE FixSingleQuotedValues(_, _)
FixSingleQuotedValues(s, i) ==
    IF i > Len(s) THEN <<>>
    ELSE LET j == IndexOfAny(s, {"'"}, i + 2)
         IN  IF s[i] = ":" /\ i < Len(s) /\ s[i + 1] = "'" /\ j <= Len(s)
             THEN <<":", "\"">> \o SubSeq(s, i + 2, j - 1) \o <<"\"">>
                  \o FixSingleQuotedValues(s, j + 1)
             ELSE <<s[i]>> \o FixSingleQuotedValues(s, i + 1)

\* a character that is no brace, bracket, comma, colon or whitespace
KeyChar(c) == c \notin ({"{", "}", ",", ":", "[", "]"} \cup Whitespace)

RECURSIVE SkipKeyChars(_, _)
SkipKeyChars(s, i) ==
    IF i <= Len(s) /\ KeyChar(s[i]) THEN SkipKeyChars(s, i + 1) ELSE i

\* the last replace: after a run of key characters, optional whitespace
\* and a colon, a value that does not start with a double quote, a bracket
\* or a brace is put in double quotes; the value runs up to the next comma,
\* newline or closing brace, which a comma, a closing brace or the end of
\* the text must follow, whitespace apart
RECURSIVE QuoteBareValues(_, _)
QuoteBareValues(s, i) ==
    IF i > Len(s) THEN <<>>
    ELSE
      LET w == SkipWs(s, SkipKeyChars(s, i))
          v == w + 1
          e == IndexOfAny(s, {",", "\n", "}"}, v + 1)
          la == SkipWs(s, e)
          matches ==
              /\ KeyChar(s[i])
              /\ w <= Len(s) /\ s[w] = ":"
              /\ v <= Len(s) /\ s[v] \notin {"\"", "[", "{"}
              /\ \/ e = Len(s) + 1
                 \/ (la <= Len(s) /\ s[la] \in {",", "}"})
      IN  IF matches
          THEN SubSeq(s, i, w - 1) \o <<":", "\"">> \o SubSeq(s, v, e - 1)
               \o <<"\"">> \o QuoteBareValues(s, e)
          ELSE <<s[i]>> \o QuoteBareValues(s, i + 1)

RepairHeuristics(repairedResponse) ==
    QuoteBareValues(
      FixSingleQuotedValues(
        FixSingleQuotedKeys(
          FixMissingCommas(
            RemoveTrailingCommas(repairedResponse, 1), 1), 1), 1), 1)

\* the text has a comma that only whitespace separates from a closer
HasTrailingComma(s) ==
    \E i \in 1..Len(s) :
        /\ s[i] = ","
        /\ LET k == SkipWs(s, i + 1) IN k <= Len(s) /\ s[k] \in {"}", "]"}

\* ClassifyParseFailure as it would be if the inner catch rethrew the parse
\* error as it is
ClassifyAsGeneric(cleanedResponse) == "generic"

\* the error thrown when no parse succeeded (the inner catch)
ClassifyParseFailure(cleanedResponse) ==
    LET finalCounts == countBracesAndBrackets(cleanedResponse)
    IN  IF Includes(cleanedResponse, "'") /\ ~Includes(cleanedResponse, "\"")
        THEN "quote-style"
        ELSE IF HasTrailingComma(cleanedResponse) THEN "trailing-comma"
        ELSE IF \/ finalCounts.openCurly # finalCounts.closeCurly
                \/ finalCounts.openSquare # finalCounts.closeSquare
             THEN "unbalanced-structure"
        ELSE "unknown"

---------------------------------------------------------------------------
(* generateFallbackPlan and parseAIResponse                                *)

Initiative(oneTime, recurring, lift) ==
    [one_time_cost |-> oneTime, recurring_annual_cost |-> recurring,
     expected_monthly_revenue_lift |-> lift]

\* the static plan; of its notes the model keeps whether they say that the
\* plan is a fallback plan ("This comprehensive fallback plan includes ...")
generateFallbackPlan ==
    [executive_summary |-> TRUE,
     plan |-> <<Initiative(3000, 0, 800), Initiative(4000, 2400, 1200),
                Initiative(3000, 1200, 600), Initiative(2500, 800, 450),
                Initiative(2000, 600, 350), Initiative(1500, 400, 320),
                Initiative(3000, 1500, 400)>>,
     financial_breakdown |->
        [total_one_time_costs |-> 16000, total_recurring_costs |-> 6500,
         total_monthly_revenue_lift |-> 3620],
     notesSayFallback |-> TRUE]

\* what parseAIResponse hands to its caller: outcome "returned" with the
\* plan (fallback: the static plan was substituted; planLength: the number
\* of initiatives), or outcome "thrown" with the class of the Error
Returned(trace, fallback, planLength) ==
    [outcome |-> "returned", class |-> "none", fallback |-> fallback,
     planLength |-> planLength] @@ trace

Thrown(trace, class) ==
    [outcome |-> "thrown", class |-> class, fallback |-> FALSE,
     planLength |-> 0] @@ trace

\* ValidatePlan as it would be if an empty plan were rejected
ValidatePlanRejectingEmpty(trace, parsed) ==
    LET executive_summary == Property(parsed.members, <<"e">>)
        plan == Property(parsed.members, <<"p">>)
        financial_breakdown == Property(parsed.members, <<"f">>)
    IN  IF \/ ~executive_summary.truthy
           \/ plan.kind = "undefined"
           \/ ~financial_breakdown.truthy
        THEN Thrown(trace, "missing-sections")
        ELSE IF plan.kind # "array" \/ plan.len = 0
             THEN Thrown(trace, "plan-not-array")
        ELSE Returned(trace, FALSE, plan.len)

\* ValidatePlan as it would be without its checks
ValidatePlanUnchecked(trace, parsed) ==
    Returned(trace, FALSE, Property(parsed.members, <<"p">>).len)

\* structural validation of the parsed plan and the empty-plan substitution
ValidatePlan(trace, parsed) ==
    LET executive_summary == Property(parsed.members, <<"e">>)
        plan == Property(parsed.members, <<"p">>)
        financial_breakdown == Property(parsed.members, <<"f">>)
    IN  IF \/ ~executive_summary.truthy
           \/ plan.kind = "undefined"
           \/ ~financial_breakdown.truthy
        THEN Thrown(trace, "missing-sections")
        ELSE IF plan.kind # "array" THEN Thrown(trace, "plan-not-array")
        ELSE IF plan.len = 0
             THEN Returned(trace, TRUE, Len(generateFallbackPlan.plan))
        ELSE Returned(trace, FALSE, plan.len)

parseAIResponse(text) ==
    LET cleanedResponse == ExtractJson(StripMarkup(text))
        repairedResponse == AutoBalance(cleanedResponse)
        first == JSONparse(repairedResponse)
        repaired == RepairHeuristics(repairedResponse)
        second == JSONparse(repaired)
        parsed == IF first.ok THEN first ELSE second
        trace == [cleanedResponse |-> cleanedResponse,
                  repairedResponse |-> repairedResponse,
                  parsed |-> parsed.ok,
                  members |-> parsed.members]
    IN  IF text = <<>> THEN Thrown(trace, "empty")
        ELSE IF ~parsed.ok
             THEN Thrown(trace, ClassifyParseFailure(cleanedResponse))
        ELSE ValidatePlan(trace, parsed)

---------------------------------------------------------------------------
(* validateAndCorrectPlan                                                  *)
(*                                                                         *)
(* A property of the plan that may be absent is the empty sequence when    *)
(* absent and a one-element sequence when present.  Of a payload the code  *)
(* reads properties that may be absent too; every such read is of the form *)
(* x || 0 or tests truthiness, so an absent property reads as 0.           *)

Get(obj, name) == IF name \in DOMAIN obj THEN obj[name] ELSE 0

\* opt || 0
ValueOr0(opt) == IF opt = <<>> THEN 0 ELSE opt[1]

\* Math.round(a / b) for b # 0
MathRoundDiv(a, b) == IF b > 0 THEN RoundDiv(a, b) ELSE RoundDiv(-a, -b)

\* the forEach that accumulates totalOneTime, totalRecurring, totalMonthlyLift
RECURSIVE SumField(_, _)
SumField(initiatives, field) ==
    IF initiatives = <<>> THEN 0
    ELSE ValueOr0(Head(initiatives)[field])
         + SumField(Tail(initiatives), field)

\* (userInputs && userInputs.totalInvestment) ||
\* (userPreferences && userPreferences.maxInvestment)
userInputInvestment(originalPayload) ==
    LET fromInputs ==
            IF "userInputs" \in DOMAIN originalPayload
            THEN Get(originalPayload.userInputs, "totalInvestment") ELSE 0
        fromPreferences ==
            IF "userPreferences" \in DOMAIN originalPayload
            THEN Get(originalPayload.userPreferences, "maxInvestment") ELSE 0
    IN  IF fromInputs # 0 THEN fromInputs ELSE fromPreferences

\* InvestmentIssue as it would be with a threshold of 5%
InvestmentIssueAtFivePercent(originalPayload) ==
    LET user == userInputInvestment(originalPayload)
        payloadInvestment ==
            Get(originalPayload.summaryMetrics, "totalInvestment")
    IN  /\ user # 0
        /\ payloadInvestment > 0
        /\ 20 * Abs(payloadInvestment - user) > user

\* the investment check: diffPercentage > 0.01, with
\* diffPercentage = |payloadInvestment - userInputInvestment|
\*                  / userInputInvestment
InvestmentIssue(originalPayload) ==
    LET user == userInputInvestment(originalPayload)
        payloadInvestment ==
            Get(originalPayload.summaryMetrics, "totalInvestment")
    IN  /\ user # 0
        /\ payloadInvestment > 0
        /\ 100 * Abs(payloadInvestment - user) > user

\* originalPayload.metadata && originalPayload.metadata.financial_mode
\* === "revenue_only"
IsRevenueOnly(originalPayload) ==
    /\ "metadata" \in DOMAIN originalPayload
    /\ "financial_mode" \in DOMAIN originalPayload.metadata
    /\ originalPayload.metadata.financial_mode = "revenue_only"

\* originalPayload.summaryMetrics.selectedMonthlyRevenueDelta || 0
expectedSelectedMonthlyDelta(originalPayload) ==
    Get(originalPayload.summaryMetrics, "selectedMonthlyRevenueDelta")

MonthlyLiftIssue(plan, originalPayload) ==
    Abs(SumField(plan.plan, "expected_monthly_revenue_lift")
        - expectedSelectedMonthlyDelta(originalPayload)) > 500

\* totals against the payload (the comparison after the forEach)
TotalsIssues(plan, originalPayload) ==
    LET summary == originalPayload.summaryMetrics
    IN  (IF MonthlyLiftIssue(plan, originalPayload)
         THEN {"monthly-lift"} ELSE {})
        \cup
        (IF IsRevenueOnly(originalPayload) THEN {}
         ELSE (IF Abs(SumField(plan.plan, "one_time_cost")
                      - Get(summary, "totalOneTimeCost")) > 1000
               THEN {"one-time-cost"} ELSE {})
              \cup
              (IF Abs(SumField(plan.plan, "recurring_annual_cost")
                      - Get(summary, "totalRecurringCostAnnual")) > 1000
               THEN {"recurring-cost"} ELSE {}))

\* the per-initiative checks of the revenue_only mode
RevenueOnlyInitiativeIssues(initiative) ==
    (IF \/ initiative.expected_monthly_revenue_lift = <<>>
        \/ initiative.expected_monthly_revenue_lift[1] < 0
     THEN {"invalid-lift"} ELSE {})
    \cup
    (IF \/ initiative.one_time_cost # <<>>
        \/ initiative.recurring_annual_cost # <<>>
     THEN {"cost-fields-present"} ELSE {})

\* the per-initiative checks of the cost-enabled mode; ROI is the percentage
\* the ROI string states, in tenths, absent when the string states none;
\* roiOver1000 says that the string contains "> 1000"
LegacyInitiativeIssues(initiative) ==
    LET cost == ValueOr0(initiative.one_time_cost)
        lift == ValueOr0(initiative.expected_monthly_revenue_lift)
        expectedROI == RoundDiv(lift * 12 * 1000, cost)
    IN  (IF cost > 0 /\ lift > 0
         THEN IF initiative.ROI = <<>> THEN {"roi-format"}
              ELSE IF Abs(initiative.ROI[1] - expectedROI) > 50
                   THEN {"roi-calculation"} ELSE {}
         ELSE {})
        \cup
        (IF cost < 0 \/ ValueOr0(initiative.recurring_annual_cost) < 0
         THEN {"negative-costs"} ELSE {})
        \cup
        (IF initiative.roiOver1000 THEN {"roi-high"} ELSE {})

\* a variant that runs the cost-enabled checks whatever the mode is
InitiativeIssuesOfEveryMode(plan, originalPayload) ==
    UNION {LegacyInitiativeIssues(plan.plan[i]) \cup
           (IF IsRevenueOnly(originalPayload)
            THEN RevenueOnlyInitiativeIssues(plan.plan[i]) ELSE {}) :
           i \in 1..Len(plan.plan)}

InitiativeIssues(plan, originalPayload) ==
    UNION {IF IsRevenueOnly(originalPayload)
           THEN RevenueOnlyInitiativeIssues(plan.plan[i])
           ELSE LegacyInitiativeIssues(plan.plan[i]) :
           i \in 1..Len(plan.plan)}

\* userInputs.totalInvestment || summaryMetrics.totalInvestment ||
\* userPreferences.maxInvestment
investmentStr(originalPayload) ==
    LET fromInputs ==
            IF "userInputs" \in DOMAIN originalPayload
            THEN Get(originalPayload.userInputs, "totalInvestment") ELSE 0
        fromSummary == Get(originalPayload.summaryMetrics, "totalInvestment")
        fromPreferences ==
            IF "userPreferences" \in DOMAIN originalPayload
            THEN Get(originalPayload.userPreferences, "maxInvestment") ELSE 0
    IN  IF fromInputs # 0 THEN fromInputs
        ELSE IF fromSummary # 0 THEN fromSummary ELSE fromPreferences

\* the checks of plan.financial_breakdown; payback is the amount the
\* payback string mentions, payback_period_months is in tenths
BreakdownIssues(plan, originalPayload) ==
    IF plan.financial_breakdown = <<>> THEN {}
    ELSE
      LET breakdown == plan.financial_breakdown[1]
          totalOneTime == SumField(plan.plan, "one_time_cost")
          totalRecurring == SumField(plan.plan, "recurring_annual_cost")
          totalMonthlyLift ==
              SumField(plan.plan, "expected_monthly_revenue_lift")
      IN  IF IsRevenueOnly(originalPayload)
          THEN (IF /\ breakdown.monthly_revenue_lift_total # <<>>
                   /\ Abs(breakdown.monthly_revenue_lift_total[1]
                          - totalMonthlyLift) > 500
                THEN {"breakdown-monthly-lift"} ELSE {})
               \cup
               (IF /\ breakdown.payback # <<>>
                   /\ investmentStr(originalPayload) # 0
                   /\ breakdown.payback[1] # investmentStr(originalPayload)
                THEN {"payback-string"} ELSE {})
          ELSE (IF Abs(ValueOr0(breakdown.total_one_time_costs)
                       - totalOneTime) > 1000
                THEN {"breakdown-one-time-cost"} ELSE {})
               \cup
               (IF Abs(ValueOr0(breakdown.total_recurring_costs)
                       - totalRecurring) > 1000
                THEN {"breakdown-recurring-cost"} ELSE {})
               \cup
               (IF ValueOr0(breakdown.payback_period_months) = 0 THEN {}
                \* a division by 0 gives Infinity, far from every period
                ELSE IF totalOneTime > 0 /\ totalMonthlyLift = 0
                     THEN {"payback-period"}
                ELSE IF Abs(10 * (IF totalOneTime > 0
                                  THEN MathRoundDiv(totalOneTime,
                                                    totalMonthlyLift)
                                  ELSE 0)
                            - breakdown.payback_period_months[1]) > 10
                     THEN {"payback-period"} ELSE {})

\* what validateAndCorrectPlan returns: the kinds of the issues and the
\* corrections (totalInvestment: 0 when none is suggested)
ValidationResult(issues, totalInvestment, suggested) ==
    [issues |-> issues,
     corrections |->
        [totalInvestment |-> totalInvestment, validation |-> suggested]]

\* originalPayload is undefined when window.currentPayload was never set:
\* the first read of a property of it throws, the catch records the error
UndefinedPayload == [undefined |-> TRUE]

validateAndCorrectPlan(plan, originalPayload) ==
    IF ~plan.planIsArray
    THEN ValidationResult({"structure"}, 0, FALSE)
    ELSE IF originalPayload = UndefinedPayload
         THEN ValidationResult({"validation-error"}, 0, FALSE)
    ELSE
      LET issues ==
              (IF InvestmentIssue(originalPayload)
               THEN {"investment"} ELSE {})
              \cup TotalsIssues(plan, originalPayload)
              \cup InitiativeIssues(plan, originalPayload)
              \cup BreakdownIssues(plan, originalPayload)
      IN  ValidationResult(
              issues,
              IF InvestmentIssue(originalPayload)
              THEN userInputInvestment(originalPayload) ELSE 0,
              ~plan.validation)

---------------------------------------------------------------------------
(* The generator as a state machine: records are collected one by one     *)
(* (collectCurrentAnalysisData pushes one record per service), then        *)
(* generatePayload is called once.                                         *)

GenInit ==
    /\ rawData = <<>>
    /\ userPreferences \in [maxInvestment : MaxInvestments]
    /\ idScheme \in IdSchemes
    /\ genResult = "none"
    /\ payload = NoPayload

NextId(n, scheme) ==
    IF scheme = "unique" THEN n + 1 ELSE (n % IdCycle) + 1

PushRecord ==
    /\ genResult = "none"
    /\ Len(rawData) < MaxRecords
    /\ \E v \in AdditionalValues :
          rawData' = Append(rawData,
              [id |-> NextId(Len(rawData), idScheme),
               additionalValue |-> v])
    /\ UNCHANGED <<userPreferences, idScheme, genResult, payload>>
    /\ GenFrame

\* if (!rawData.length) return null
GenerateNull ==
    /\ genResult = "none"
    /\ rawData = <<>>
    /\ genResult' = "null"
    /\ UNCHANGED <<rawData, userPreferences, idScheme, payload>>
    /\ GenFrame

GeneratePayload ==
    /\ genResult = "none"
    /\ rawData # <<>>
    /\ genResult' = "payload"
    /\ payload' = generatePayload(userPreferences, rawData)
    /\ UNCHANGED <<rawData, userPreferences, idScheme>>
    /\ GenFrame

\* the records of the canonical test input: monthly impacts, in the order
\* of the test (six main records, IDAA, RMMR, ten others, one small)
SampleMonthly ==
    <<6460, 1671, 1537, 898, 858, 708, 300, 200,
      680, 680, 680, 680, 680, 680, 680, 680, 680, 680, 9>>

\* sampleRawData of the test: additionalValue = mToA(monthly) = monthly * 12
sampleRawData ==
    [i \in 1..Len(SampleMonthly) |->
        [id |-> i, additionalValue |-> SampleMonthly[i] * 12]]

\* two records, a with additionalValue 120000 and b with 12000
ScenarioRawData ==
    <<[id |-> 1, additionalValue |-> 120000],
      [id |-> 2, additionalValue |-> 12000]>>

\* two records whose monthly impacts, 20.5 and 20.83, are both published
\* as 21
NearTieRawData ==
    <<[id |-> 1, additionalValue |-> 246],
      [id |-> 2, additionalValue |-> 250]>>

\* inputs handed to generatePayload as rawDataOverride
RawDataOverrides == {sampleRawData, ScenarioRawData, NearTieRawData}

\* generatePayload(userPreferences, rawDataOverride): the override is taken
\* instead of the collected records
GenerateFromOverride ==
    /\ genResult = "none"
    /\ rawData = <<>>
    /\ \E raw \in RawDataOverrides :
          /\ rawData' = raw
          /\ payload' = generatePayload(userPreferences, raw)
    /\ genResult' = "payload"
    /\ UNCHANGED <<userPreferences, idScheme>>
    /\ GenFrame

GenNext ==
    PushRecord \/ GenerateNull \/ GeneratePayload \/ GenerateFromOverride

---------------------------------------------------------------------------
(* The recovery pipeline as a state machine: the upstream produces a       *)
(* document, the text is damaged on its way (truncated at the token        *)
(* budget, fenced, prefixed with prose, quoted informally, given a         *)
(* trailing comma), then parseAIResponse is called once.                   *)

MaxCut == 3

Q(c) == <<"\"", c, "\"">>

\* {"e":"x","p":[{"k":1}],"f":{"k":1}}
DocPlan ==
    <<"{">> \o Q("e") \o <<":">> \o Q("x") \o <<",">> \o Q("p")
    \o <<":", "[", "{">> \o Q("k") \o <<":", "1", "}", "]", ",">> \o Q("f")
    \o <<":", "{">> \o Q("k") \o <<":", "1", "}", "}">>

\* {"e":"x","p":[{"k":1}],"f":{"k":{}}}
DocNested ==
    <<"{">> \o Q("e") \o <<":">> \o Q("x") \o <<",">> \o Q("p")
    \o <<":", "[", "{">> \o Q("k") \o <<":", "1", "}", "]", ",">> \o Q("f")
    \o <<":", "{">> \o Q("k") \o <<":", "{", "}", "}", "}">>

\* {"e":"x","p":[],"f":{}}
DocEmptyPlan ==
    <<"{">> \o Q("e") \o <<":">> \o Q("x") \o <<",">> \o Q("p")
    \o <<":", "[", "]", ",">> \o Q("f") \o <<":", "{", "}", "}">>

\* {"e":"x","i":[],"f":{}}
DocEmptyInitiatives ==
    <<"{">> \o Q("e") \o <<":">> \o Q("x") \o <<",">> \o Q("i")
    \o <<":", "[", "]", ",">> \o Q("f") \o <<":", "{", "}", "}">>

\* {"e":"x","f":{"k":1}}
DocNoPlan ==
    <<"{">> \o Q("e") \o <<":">> \o Q("x") \o <<",">> \o Q("f")
    \o <<":", "{">> \o Q("k") \o <<":", "1", "}", "}">>

\* {"e":"x","p":"x","f":{"k":1}}
DocPlanNotArray ==
    <<"{">> \o Q("e") \o <<":">> \o Q("x") \o <<",">> \o Q("p")
    \o <<":">> \o Q("x") \o <<",">> \o Q("f")
    \o <<":", "{">> \o Q("k") \o <<":", "1", "}", "}">>

\* {"e":"{","p":[{"k":1}],"f":{"k":1}}: a string value holds a brace
DocOpenerInString ==
    <<"{">> \o Q("e") \o <<":">> \o Q("{") \o <<",">> \o Q("p")
    \o <<":", "[", "{">> \o Q("k") \o <<":", "1", "}", "]", ",">> \o Q("f")
    \o <<":", "{">> \o Q("k") \o <<":", "1", "}", "}">>

\* {"e":"]","p":[{"k":1}],"f":{"k":1}}: a string value holds a bracket
DocCloserInString ==
    <<"{">> \o Q("e") \o <<":">> \o Q("]") \o <<",">> \o Q("p")
    \o <<":", "[", "{">> \o Q("k") \o <<":", "1", "}", "]", ",">> \o Q("f")
    \o <<":", "{">> \o Q("k") \o <<":", "1", "}", "}">>

\* {"e":"x","f":{"k":1},"p":[{"k":1}]}: the plan is the last section
DocPlanLast ==
    <<"{">> \o Q("e") \o <<":">> \o Q("x") \o <<",">> \o Q("f")
    \o <<":", "{">> \o Q("k") \o <<":", "1", "}", ",">> \o Q("p")
    \o <<":", "[", "{">> \o Q("k") \o <<":", "1", "}", "]", "}">>

\* x x (prose only)
DocProse == <<"x", " ", "x">>

UpstreamDocuments ==
    {DocPlan, DocNested, DocEmptyPlan, DocEmptyInitiatives, DocNoPlan,
     DocPlanNotArray, DocOpenerInString, DocCloserInString, DocPlanLast,
     DocProse}

NotRecovered ==
    [outcome |-> "none", class |-> "none", fallback |-> FALSE,
     planLength |-> 0, cleanedResponse |-> <<>>, repairedResponse |-> <<>>,
     parsed |-> FALSE, members |-> <<>>]

RecInit ==
    /\ aiResponse \in UpstreamDocuments
    /\ corruption = [cut |-> 0, applied |-> {}]
    /\ recovered = NotRecovered

Applied(edit) ==
    corruption' = [corruption EXCEPT !.applied = @ \cup {edit}]

\* the token budget cuts the text off
Truncate ==
    /\ recovered.outcome = "none"
    /\ corruption.cut < MaxCut
    /\ aiResponse # <<>>
    /\ aiResponse' = SubSeq(aiResponse, 1, Len(aiResponse) - 1)
    /\ corruption' = [corruption EXCEPT !.cut = @ + 1]
    /\ UNCHANGED recovered
    /\ RecFrame

\* the text comes in a fenced code block with the tag json
WrapInFence ==
    /\ recovered.outcome = "none"
    /\ "fence" \notin corruption.applied
    /\ aiResponse' = <<"FENCE", "json", "\n">> \o aiResponse \o <<"\n", "FENCE">>
    /\ Applied("fence")
    /\ UNCHANGED recovered
    /\ RecFrame

\* reasoning text precedes the answer
PrependProse ==
    /\ recovered.outcome = "none"
    /\ "prose" \notin corruption.applied
    /\ aiResponse' = <<"x", " ">> \o aiResponse
    /\ Applied("prose")
    /\ UNCHANGED recovered
    /\ RecFrame

\* single quotes instead of double quotes
UseSingleQuotes ==
    /\ recovered.outcome = "none"
    /\ "quotes" \notin corruption.applied
    /\ aiResponse' =
          [i \in 1..Len(aiResponse) |->
              IF aiResponse[i] = "\"" THEN "'" ELSE aiResponse[i]]
    /\ Applied("quotes")
    /\ UNCHANGED recovered
    /\ RecFrame

\* a comma before the last closer
AddTrailingComma ==
    /\ recovered.outcome = "none"
    /\ "comma" \notin corruption.applied
    /\ aiResponse # <<>>
    /\ aiResponse[Len(aiResponse)] \in {"}", "]"}
    /\ aiResponse' = SubSeq(aiResponse, 1, Len(aiResponse) - 1)
                     \o <<",", aiResponse[Len(aiResponse)]>>
    /\ Applied("comma")
    /\ UNCHANGED recovered
    /\ RecFrame

Recover ==
    /\ recovered.outcome = "none"
    /\ recovered' = parseAIResponse(aiResponse)
    /\ UNCHANGED <<aiResponse, corruption>>
    /\ RecFrame

RecNext ==
    \/ Truncate \/ WrapInFence \/ PrependProse \/ UseSingleQuotes
    \/ AddTrailingComma \/ Recover

---------------------------------------------------------------------------
(* The validator as a state machine: a payload is produced (by the         *)
(* generator, or the sample payload of testWithSampleData, or the payload  *)
(* of the calculation report that still carries cost totals), a plan       *)
(* arrives, then validateAndCorrectPlan is called once.                    *)

MaxInitiatives == 2

Record(id, additionalValue) == [id |-> id, additionalValue |-> additionalValue]

\* monthly lifts of 10000, of 10000 and 1000, of 500
ValRaws ==
    {<<Record(1, 120000)>>,
     <<Record(1, 120000), Record(2, 12000)>>,
     <<Record(1, 6000)>>}

\* summaryMetrics.totalInvestment of a payload that was altered after its
\* generation: 0.9% and 1.8% above 55000, and a hundredfold (a scaling bug)
ScaledInvestments == {55500, 56000, 5500000}

\* the samplePayload of testWithSampleData
SamplePayload ==
    [metadata |-> [financial_mode |-> "revenue_only"],
     summaryMetrics |->
        [selectedMonthlyRevenueDelta |-> 7000,
         estimatedAnnualDelta |-> 84000,
         totalInvestment |-> 100000],
     userPreferences |-> [maxInvestment |-> 100000]]

\* the payload of the calculation report: no financial_mode, cost totals
LegacyPayload ==
    [metadata |-> [timeUnit |-> "month"],
     summaryMetrics |->
        [monthlyRevenueDelta |-> 20550,
         estimatedAnnualDelta |-> 246604,
         totalOneTimeCost |-> 585000,
         totalRecurringCostAnnual |-> 504000]]

PlanInitiative(lift, oneTime, recurring, roi, over) ==
    [expected_monthly_revenue_lift |-> lift, one_time_cost |-> oneTime,
     recurring_annual_cost |-> recurring, ROI |-> roi, roiOver1000 |-> over]

\* initiatives an upstream plan may hold
ValInitiatives ==
    {PlanInitiative(<<10000>>, <<>>, <<>>, <<>>, FALSE),
     PlanInitiative(<<400>>, <<>>, <<>>, <<>>, FALSE),
     PlanInitiative(<<-100>>, <<>>, <<>>, <<>>, FALSE),
     PlanInitiative(<<1000>>, <<3000>>, <<0>>, <<4000>>, FALSE),
     PlanInitiative(<<1000>>, <<-3000>>, <<>>, <<>>, FALSE),
     PlanInitiative(<<1000>>, <<3000>>, <<-500>>, <<4000>>, FALSE)}

Breakdown(totalInvestment, monthly, payback, oneTime, recurring, months) ==
    [totalInvestment |-> totalInvestment,
     monthly_revenue_lift_total |-> monthly, payback |-> payback,
     total_one_time_costs |-> oneTime, total_recurring_costs |-> recurring,
     payback_period_months |-> months]

\* financial breakdowns an upstream plan may hold
ValBreakdowns ==
    {Breakdown(<<55000>>, <<10000>>, <<55000>>, <<>>, <<>>, <<>>),
     Breakdown(<<100000>>, <<>>, <<>>, <<3000>>, <<0>>, <<30>>)}

EmptyPlan ==
    [planIsArray |-> TRUE, plan |-> <<>>, financial_breakdown |-> <<>>,
     validation |-> FALSE]

NotValidated == ValidationResult({}, 0, FALSE)

ValInit ==
    /\ valPayload = NoPayload
    /\ valSource = "none"
    /\ valPlan = EmptyPlan
    /\ validation = [done |-> FALSE, result |-> NotValidated]

\* generatePlan: the payload comes from generatePayload
ValGenerate ==
    /\ valSource = "none"
    /\ \E raw \in ValRaws, investment \in MaxInvestments :
          valPayload' = generatePayload([maxInvestment |-> investment], raw)
    /\ valSource' = "generator"
    /\ UNCHANGED <<valPlan, validation>>
    /\ ValFrame

ValSample ==
    /\ valSource = "none"
    /\ valPayload' = SamplePayload
    /\ valSource' = "sample"
    /\ UNCHANGED <<valPlan, validation>>
    /\ ValFrame

ValLegacy ==
    /\ valSource = "none"
    /\ valPayload' = LegacyPayload
    /\ valSource' = "legacy"
    /\ UNCHANGED <<valPlan, validation>>
    /\ ValFrame

\* the summary investment of a generated payload no longer is the amount
\* the user entered
ValScaleInvestment ==
    /\ valSource = "generator"
    /\ ~validation.done
    /\ valPayload.userInputs.totalInvestment # 0
    /\ \E scaled \in ScaledInvestments :
          valPayload' =
              [valPayload EXCEPT !.summaryMetrics.totalInvestment = scaled]
    /\ valSource' = "altered"
    /\ UNCHANGED <<valPlan, validation>>
    /\ ValFrame

\* the plan that arrives: its initiatives, one by one
ValAddInitiative ==
    /\ ~validation.done
    /\ valPlan.planIsArray
    /\ Len(valPlan.plan) < MaxInitiatives
    /\ \E initiative \in ValInitiatives :
          valPlan' = [valPlan EXCEPT !.plan = Append(@, initiative)]
    /\ UNCHANGED <<valPayload, valSource, validation>>
    /\ ValFrame

ValSetBreakdown ==
    /\ ~validation.done
    /\ valPlan.financial_breakdown = <<>>
    /\ \E breakdown \in ValBreakdowns :
          valPlan' = [valPlan EXCEPT !.financial_breakdown = <<breakdown>>]
    /\ UNCHANGED <<valPayload, valSource, validation>>
    /\ ValFrame

\* the plan has no array of initiatives
ValDropInitiatives ==
    /\ ~validation.done
    /\ valPlan.planIsArray
    /\ valPlan' = [valPlan EXCEPT !.planIsArray = FALSE, !.plan = <<>>]
    /\ UNCHANGED <<valPayload, valSource, validation>>
    /\ ValFrame

Validate ==
    /\ ~validation.done
    /\ valSource # "none"
    /\ validation' =
          [done |-> TRUE,
           result |-> validateAndCorrectPlan(valPlan, valPayload)]
    /\ UNCHANGED <<valPayload, valSource, valPlan>>
    /\ ValFrame

ValNext ==
    \/ ValGenerate \/ ValSample \/ ValLegacy \/ ValScaleInvestment
    \/ ValAddInitiative \/ ValSetBreakdown \/ ValDropInitiatives \/ Validate

---------------------------------------------------------------------------
(* The job handler (generate-plan), its worker and the job store           *)
(*                                                                         *)
(* deployment: which store the handler initialises (Firebase or the local  *)
(* file store), which version of the handler runs (the one that writes     *)
(* every record with dbSet, or the earlier one whose worker writes with    *)
(* the Firebase set and ref whatever the store is), and whether the        *)
(* upstream API key is configured.                                         *)
(* plans: the records under plans/ in the store.                           *)
(* job: the handler and worker of each job.  Steps are the runs between    *)
(* two awaits.                                                             *)

MaxJobs == 2

JobIds == 1..MaxJobs

MAX_RETRIES == 3

RETRY_DELAY == 1000

\* retryableStatuses as it would be if every status were retried
EveryStatusRetryable == {400, 401, 402, 404, 418, 429, 500, 502, 503}

\* retryableStatuses
RetryableStatuses == {429, 500, 502, 503}

\* the keys of errorMessages
KnownStatuses == {400, 401, 402, 404, 429, 502, 503}

\* HTTP statuses the upstream answers with in the model
Statuses == {400, 401, 402, 404, 418, 429, 500}

\* texts the upstream answers with in the model
UpstreamTexts == {DocPlan, DocEmptyPlan, DocNoPlan, DocProse}

\* JSON.stringify of n initiatives, separated by commas
RECURSIVE StringifyInitiatives(_)
StringifyInitiatives(n) ==
    IF n = 0 THEN <<>>
    ELSE IF n = 1 THEN <<"{">> \o Q("k") \o <<":", "1", "}">>
    ELSE <<"{">> \o Q("k") \o <<":", "1", "}", ",">>
         \o StringifyInitiatives(n - 1)

\* JSON.stringify of a plan: the sections, one object per initiative
JSONstringify(plan) ==
    <<"{">> \o Q("e") \o <<":">> \o Q("x") \o <<",">> \o Q("p")
    \o <<":", "[">> \o StringifyInitiatives(Len(plan.plan)) \o <<"]", ",">>
    \o Q("f") \o <<":", "{">> \o Q("k") \o <<":", "1", "}", ",">> \o Q("k")
    \o <<":">> \o Q("x") \o <<"}">>

\* Math.pow(2, retryCount)
RECURSIVE Pow2(_)
Pow2(n) == IF n = 0 THEN 1 ELSE 2 * Pow2(n - 1)

\* the records of the store
NoRecord ==
    [status |-> "none", planLength |-> 0, fallback |-> FALSE,
     sections |-> {}, error |-> "none"]

\* the sections of the plan parseAIResponse returned that hold something:
\* a truthy executive_summary ("e"), initiatives ("p"), a truthy
\* financial_breakdown ("f")
PlanSections(plan) ==
    IF plan.fallback
    THEN (IF generateFallbackPlan.executive_summary THEN {"e"} ELSE {})
         \cup (IF generateFallbackPlan.plan # <<>> THEN {"p"} ELSE {})
         \cup (IF "financial_breakdown" \in DOMAIN generateFallbackPlan
               THEN {"f"} ELSE {})
    ELSE {key \in {"e", "f"} : Property(plan.members, <<key>>).truthy}
         \cup (IF /\ Property(plan.members, <<"p">>).kind = "array"
                  /\ Property(plan.members, <<"p">>).len > 0
               THEN {"p"} ELSE {})

PendingRecord == [NoRecord EXCEPT !.status = "pending"]

CompleteRecord(plan) ==
    [NoRecord EXCEPT !.status = "complete",
                     !.planLength = plan.planLength,
                     !.fallback = plan.fallback,
                     !.sections = PlanSections(plan)]

ErrorRecord(message) ==
    [NoRecord EXCEPT !.status = "error", !.error = message]

EmptyStore == [j \in JobIds |-> NoRecord]

IdleJob ==
    [pc |-> "idle", writing |-> NoRecord, snapshot |-> EmptyStore,
     next |-> "none", retryCount |-> 0, delays |-> <<>>]

JobInit ==
    /\ deployment \in [backend : {"firebase", "local"},
                       handler : {"dbSet", "firebaseSet"},
                       apiKey : BOOLEAN]
    /\ plans = EmptyStore
    /\ job = [j \in JobIds |-> IdleJob]

\* dbSet(dbRef(database, path), record) is called: the job goes on with
\* next once the record is written
CallDbSet(j, record, next) ==
    job' = [job EXCEPT ![j].pc = "set", ![j].writing = record,
                       ![j].next = next]

\* the worker writes the terminal record.  The earlier handler calls the
\* Firebase set and ref with the database object of the local file store:
\* the call throws, in the try block and again in the catch block, and
\* the rejection of the worker is handled nowhere
WriteTerminal(j, record) ==
    IF deployment.handler = "firebaseSet" /\ deployment.backend = "local"
    THEN job' = [job EXCEPT ![j].pc = "crashed"]
    ELSE CallDbSet(j, record, "done")

\* exports.handler up to the first await: the request is valid, the job
\* gets its id, the pending record is handed to dbSet
Handler(j) ==
    /\ job[j].pc = "idle"
    /\ CallDbSet(j, PendingRecord, "worker")
    /\ UNCHANGED <<deployment, plans>>
    /\ JobFrame

\* set of firebase/database: the record replaces what is at its path
FirebaseSet(j) ==
    /\ deployment.backend = "firebase"
    /\ job[j].pc = "set"
    /\ plans' = [plans EXCEPT ![j] = job[j].writing]
    /\ job' = [job EXCEPT ![j].pc = job[j].next]
    /\ UNCHANGED deployment
    /\ JobFrame

\* set of the local file store, up to the end of readDb: the file is read
LocalReadDb(j) ==
    /\ deployment.backend = "local"
    /\ job[j].pc = "set"
    /\ job' = [job EXCEPT ![j].pc = "write", ![j].snapshot = plans]
    /\ UNCHANGED <<deployment, plans>>
    /\ JobFrame

\* set of the local file store, from setAtPath on: the root that was read,
\* with the record at its path, replaces the file (writeDb)
LocalWriteDb(j) ==
    /\ deployment.backend = "local"
    /\ job[j].pc = "write"
    /\ plans' = [job[j].snapshot EXCEPT ![j] = job[j].writing]
    /\ job' = [job EXCEPT ![j].pc = job[j].next,
                          ![j].snapshot = EmptyStore]
    /\ UNCHANGED deployment
    /\ JobFrame

\* the setImmediate callback up to the fetch: without an API key
\* callOpenRouterAI throws at once
Worker(j) ==
    /\ job[j].pc = "worker"
    /\ IF deployment.apiKey
       THEN job' = [job EXCEPT ![j].pc = "fetch"]
       ELSE WriteTerminal(j, ErrorRecord("api-key"))
    /\ UNCHANGED <<deployment, plans>>
    /\ JobFrame

\* the record the worker writes for what parseAIResponse returned or threw
TerminalRecord(result) ==
    IF result.outcome = "returned"
    THEN CompleteRecord(result) ELSE ErrorRecord(result.class)

\* the worker from the text of the upstream on: parseAIResponse, then the
\* complete record, or the error record of the catch block
Settle(j, text) == WriteTerminal(j, TerminalRecord(parseAIResponse(text)))

\* Retry as it would be with the same delay before every retry
RetryAfterBaseDelay(j) ==
    job' = [job EXCEPT
               ![j].retryCount = @ + 1,
               ![j].delays = Append(@, RETRY_DELAY)]

\* the retry of callOpenRouterAI after the backoff delay
Retry(j) ==
    job' = [job EXCEPT
               ![j].retryCount = @ + 1,
               ![j].delays =
                   Append(@, RETRY_DELAY * Pow2(job[j].retryCount))]

\* FetchTimesOut as it would be if a timeout were handled as any other
\* rejection of the fetch
FetchTimesOutAsFailure(j) ==
    /\ job[j].pc = "fetch"
    /\ IF job[j].retryCount < MAX_RETRIES
       THEN Retry(j)
       ELSE WriteTerminal(j, ErrorRecord("connect-failed"))
    /\ UNCHANGED <<deployment, plans>>
    /\ JobFrame

\* the race of the fetch and the timer is decided by the timer: the
\* fallback plan, as text, is what callOpenRouterAI returns
FetchTimesOut(j) ==
    /\ job[j].pc = "fetch"
    /\ Settle(j, JSONstringify(generateFallbackPlan))
    /\ UNCHANGED <<deployment, plans>>
    /\ JobFrame

\* the fetch rejects (no connection)
FetchFails(j) ==
    /\ job[j].pc = "fetch"
    /\ IF job[j].retryCount < MAX_RETRIES
       THEN Retry(j)
       ELSE WriteTerminal(j, ErrorRecord("connect-failed"))
    /\ UNCHANGED <<deployment, plans>>
    /\ JobFrame

\* the branch if (!response.ok) of callOpenRouterAI for one status
ResponseNotOk(j, status) ==
    IF status \in RetryableStatuses /\ job[j].retryCount < MAX_RETRIES
    THEN Retry(j)
    ELSE WriteTerminal(j,
             ErrorRecord(IF status \in KnownStatuses
                         THEN "openrouter-error"
                         ELSE "openrouter-api-error"))

\* the upstream answers with an error status
FetchStatus(j) ==
    /\ job[j].pc = "fetch"
    /\ \E status \in Statuses : ResponseNotOk(j, status)
    /\ UNCHANGED <<deployment, plans>>
    /\ JobFrame

\* the upstream answers 200 with a body that is no JSON, has no choices
\* or has no content
FetchMalformed(j) ==
    /\ job[j].pc = "fetch"
    /\ WriteTerminal(j, ErrorRecord("unexpected-response"))
    /\ UNCHANGED <<deployment, plans>>
    /\ JobFrame

\* the upstream answers 200 with a text
FetchText(j) ==
    /\ job[j].pc = "fetch"
    /\ \E text \in UpstreamTexts : Settle(j, text)
    /\ UNCHANGED <<deployment, plans>>
    /\ JobFrame

\* check-plan-status for one job id: the snapshot of plans/{jobId} is read;
\* 404 and not_found when it does not exist, else the status of the record
checkPlanStatus(jobId) ==
    IF plans[jobId] = NoRecord THEN "not_found" ELSE plans[jobId].status

JobNext ==
    \E j \in JobIds :
        \/ Handler(j) \/ FirebaseSet(j) \/ LocalReadDb(j) \/ LocalWriteDb(j)
        \/ Worker(j) \/ FetchTimesOut(j) \/ FetchFails(j) \/ FetchStatus(j)
        \/ FetchMalformed(j) \/ FetchText(j)

---------------------------------------------------------------------------
(* The client (aiIntegration.js): jobs are started with testWithPayload    *)
(* or testWithSampleData, each is polled by its own pollForPlan.  The      *)
(* server is seen through the store only: a pending record appears when    *)
(* the job is accepted and is replaced by a terminal record later.         *)

maxPolls == 30

\* polls of one job that the model follows
PollCap == maxPolls + 1

\* the payloads the user generates plans for
ClientPayloads == {"p1", "p2"}

\* the payload objects: what window.currentPayload holds
PayloadObject(p) ==
    CASE p = "p1" ->
            generatePayload([maxInvestment |-> 55000],
                            <<Record(1, 120000)>>)
      [] p = "p2" ->
            generatePayload([maxInvestment |-> 55000], <<Record(1, 6000)>>)
      [] p = "sample" -> SamplePayload
      [] OTHER -> UndefinedPayload

\* the plan of a complete record, as the validator reads it
ServedPlan ==
    [EmptyPlan EXCEPT
        !.plan = <<PlanInitiative(<<7000>>, <<>>, <<>>, <<>>, FALSE)>>]

\* the sections of the plan of a complete record, as JSON.parse gave them
ServedMembers ==
    <<[key |-> <<"e">>, kind |-> "string", truthy |-> TRUE, len |-> 1],
      [key |-> <<"p">>, kind |-> "array", truthy |-> TRUE, len |-> 1],
      [key |-> <<"f">>, kind |-> "object", truthy |-> TRUE, len |-> 0]>>

IdleClient ==
    [pc |-> "idle", payload |-> "undefined", pollCount |-> 0,
     inFlight |-> 0, displays |-> 0,
     hasResolved |-> FALSE, shown |-> "none",
     validatedAgainst |-> "undefined", issues |-> {}]

CliInit ==
    /\ currentPayload = "undefined"
    /\ client = [j \in JobIds |-> IdleClient]
    /\ plans = EmptyStore

\* testWithPayload up to pollForPlan: the payload is stored globally, the
\* job is posted, the handler answers with the job id once the pending
\* record is written
testWithPayload(j) ==
    /\ client[j].pc = "idle"
    /\ \E p \in ClientPayloads :
          /\ currentPayload' = p
          /\ client' = [client EXCEPT ![j].pc = "polling", ![j].payload = p]
    /\ plans' = [plans EXCEPT ![j] = PendingRecord]
    /\ CliFrame

\* testWithSampleData up to pollForPlan: the sample payload is posted and
\* window.currentPayload is left as it is
testWithSampleData(j) ==
    /\ client[j].pc = "idle"
    /\ client' = [client EXCEPT ![j].pc = "polling",
                                ![j].payload = "sample"]
    /\ plans' = [plans EXCEPT ![j] = PendingRecord]
    /\ UNCHANGED currentPayload
    /\ CliFrame

\* the worker of a job writes its terminal record
WorkerSettles(j) ==
    /\ plans[j].status = "pending"
    /\ \E record \in {CompleteRecord([planLength |-> 1, fallback |-> FALSE,
                                      members |-> ServedMembers]),
                      ErrorRecord("unexpected-response")} :
          plans' = [plans EXCEPT ![j] = record]
    /\ UNCHANGED <<currentPayload, client>>
    /\ CliFrame

\* status requests of one pollForPlan call that may be awaiting their
\* answer at the same time
MaxInFlight == 2

\* the interval fires: the callback finds hasResolved false, counts the
\* poll and sends the status request; the interval fires every 5 seconds
\* whether or not an earlier request was answered
PollStart(j) ==
    /\ client[j].pc = "polling"
    /\ client[j].pollCount < PollCap
    /\ client[j].inFlight < MaxInFlight
    /\ client' = [client EXCEPT ![j].pollCount = @ + 1,
                                ![j].inFlight = @ + 1]
    /\ UNCHANGED <<currentPayload, plans>>
    /\ CliFrame

\* resolve(), after clearInterval and hasResolved = true
Resolved(j, shown) ==
    client' = [client EXCEPT ![j].pc = "resolved",
                             ![j].inFlight = @ - 1,
                             ![j].hasResolved = TRUE,
                             ![j].shown = shown]

\* a callback goes on after its await: the status request is answered
\* with the record of the job; hasResolved is not read again
Poll(j) ==
    /\ client[j].inFlight > 0
    /\ IF plans[j].status = "complete"
       THEN client' =
               [client EXCEPT
                   ![j].pc = "resolved",
                   ![j].inFlight = @ - 1,
                   ![j].hasResolved = TRUE,
                   ![j].shown = "plan",
                   ![j].displays = @ + 1,
                   ![j].validatedAgainst = currentPayload,
                   ![j].issues =
                       validateAndCorrectPlan(
                           ServedPlan, PayloadObject(currentPayload)).issues]
       ELSE IF plans[j].status = "error"
            THEN Resolved(j, "error")
       ELSE IF plans[j].status = "pending"
            THEN client' = [client EXCEPT ![j].inFlight = @ - 1]
       \* no record: check-plan-status answers 404, the catch block
       \* resolves
       ELSE Resolved(j, "not-found")
    /\ UNCHANGED <<currentPayload, plans>>
    /\ CliFrame

\* a callback goes on after its await: the status request failed (no
\* connection, or a status other than 404)
PollFails(j) ==
    /\ client[j].inFlight > 0
    /\ IF client[j].pollCount >= maxPolls
       THEN Resolved(j, "polling-failed")
       ELSE client' = [client EXCEPT ![j].inFlight = @ - 1]
    /\ UNCHANGED <<currentPayload, plans>>
    /\ CliFrame

CliNext ==
    \E j \in JobIds :
        \/ testWithPayload(j) \/ testWithSampleData(j) \/ WorkerSettles(j)
        \/ PollStart(j) \/ Poll(j) \/ PollFails(j)

---------------------------------------------------------------------------
(* Specifications: one per component, the others at rest                   *)

GenIdle ==
    /\ rawData = <<>>
    /\ userPreferences = [maxInvestment |-> 0]
    /\ idScheme = "unique"
    /\ genResult = "none"
    /\ payload = NoPayload

RecIdle ==
    /\ aiResponse = <<>>
    /\ corruption = [cut |-> 0, applied |-> {}]
    /\ recovered = NotRecovered

ValIdle == ValInit

JobIdle ==
    /\ deployment = [backend |-> "firebase", handler |-> "dbSet",
                     apiKey |-> TRUE]
    /\ plans = EmptyStore
    /\ job = [j \in JobIds |-> IdleJob]

CliIdle ==
    /\ currentPayload = "undefined"
    /\ client = [j \in JobIds |-> IdleClient]

InitGen == GenInit /\ RecIdle /\ ValIdle /\ JobIdle /\ CliIdle

InitRec == RecInit /\ GenIdle /\ ValIdle /\ JobIdle /\ CliIdle

InitVal == ValInit /\ GenIdle /\ RecIdle /\ JobIdle /\ CliIdle

InitJobs == JobInit /\ GenIdle /\ RecIdle /\ ValIdle /\ CliIdle

InitClient == CliInit /\ JobIdle /\ GenIdle /\ RecIdle /\ ValIdle

SpecGen == InitGen /\ [][GenNext]_vars

SpecRec == InitRec /\ [][RecNext]_vars

SpecVal == InitVal /\ [][ValNext]_vars

SpecJobs == InitJobs /\ [][JobNext]_vars

SpecClient == InitClient /\ [][CliNext]_vars

\* the jobs with the event loop running every continuation that is ready:
\* a store operation that was started is carried through
SpecJobsFair ==
    /\ SpecJobs
    /\ \A j \in JobIds :
          /\ WF_vars(FirebaseSet(j))
          /\ WF_vars(LocalReadDb(j))
          /\ WF_vars(LocalWriteDb(j))

---------------------------------------------------------------------------
(* Claims about generatePayload                                            *)

\* sum of the published monthlyRevenueImpact of the included topDrivers
RECURSIVE SumIncludedPublished(_)
SumIncludedPublished(drivers) ==
    IF drivers = <<>> THEN 0
    ELSE (IF Head(drivers).included
          THEN Head(drivers).monthlyRevenueImpact ELSE 0)
         + SumIncludedPublished(Tail(drivers))

NumIncluded(drivers) ==
    Cardinality({i \in 1..Len(drivers) : drivers[i].included})

\* C1: for every non-empty input, (sum of monthlyRevenueImpact over the
\* included topDrivers) + otherItemsSummary.combinedMonthlyImpact equals
\* summaryMetrics.monthlyRevenueDelta within max(0.1% of the total, 10).
\* The comparison is scaled by 1000 to stay in the integers; the total is
\* taken as the larger side, the reading most favourable to the claim.
C1_SumReconciles ==
    genResult = "payload" =>
        LET lhs == SumIncludedPublished(payload.topDrivers)
                   + payload.otherItemsSummary.combinedMonthlyImpact
            rhs == payload.summaryMetrics.monthlyRevenueDelta
        IN  1000 * Abs(lhs - rhs) <= Max(Max(Abs(lhs), Abs(rhs)), 10 * 1000)

\* C2: exactly the min(6, n) highest-ranked records are included and every
\* other record is not, whatever ids the records carry: in the ranked
\* topDrivers the included flag is set on the first six positions only.
C2_IncludedIsTopSix ==
    genResult = "payload" =>
        /\ \A i \in 1..Len(payload.topDrivers) :
              payload.topDrivers[i].included <=> (i <= 6)
        /\ NumIncluded(payload.topDrivers) = Min(6, Len(rawData))

\* C3: overallFinancials.paybackMonths is the non-numeric sentinel, never
\* an infinite number, whenever the included monthly lift is 0 or the
\* investment is 0.
C3_PaybackSentinel ==
    (/\ genResult = "payload"
     /\ \/ payload.summaryMetrics.estimatedAnnualDelta = 0
        \/ payload.summaryMetrics.totalInvestment = 0)
    => payload.overallFinancials.paybackMonths.kind = "null"


---------------------------------------------------------------------------
(* Claims about parseAIResponse                                            *)

\* plan documents that are well formed
WellFormedPlans == {DocPlan, DocNested, DocEmptyPlan}

\* the text is a well-formed plan document without its last 2 characters,
\* which are closing braces, and is otherwise as the upstream sent it
LacksTwoBraces ==
    /\ corruption = [cut |-> 2, applied |-> {}]
    /\ aiResponse \o <<"}", "}">> \in WellFormedPlans

\* C6: for a well-formed plan document from which exactly the last 2
\* closing braces are missing, structural repair appends exactly 2 closing
\* braces and nothing else, and the parse then succeeds.
C6_TwoBracesAppended ==
    (recovered.outcome # "none" /\ LacksTwoBraces) =>
        /\ recovered.repairedResponse = aiResponse \o <<"}", "}">>
        /\ recovered.parsed

\* the classes of a text that cannot be parsed
ParseFailureClasses ==
    {"quote-style", "trailing-comma", "unbalanced-structure", "unknown"}

\* the sections the code requires are there: executive_summary and
\* financial_breakdown are truthy, the section named key is defined
HasSections(key) ==
    /\ Property(recovered.members, <<"e">>).truthy
    /\ Property(recovered.members, <<"f">>).truthy
    /\ Property(recovered.members, <<key>>).kind # "undefined"

EmptySection(key) ==
    /\ recovered.outcome # "none"
    /\ recovered.parsed
    /\ HasSections(key)
    /\ Property(recovered.members, <<key>>).kind = "array"
    /\ Property(recovered.members, <<key>>).len = 0

\* the caller got the static fallback plan, which has initiatives and
\* whose notes say that it is a fallback plan
YieldsFallback ==
    /\ recovered.outcome = "returned"
    /\ recovered.fallback
    /\ recovered.planLength = Len(generateFallbackPlan.plan)
    /\ recovered.planLength >= 1
    /\ generateFallbackPlan.notesSayFallback

\* C8 as stated: a text whose initiatives field parses to an empty
\* sequence, with executive_summary and financial_breakdown present,
\* yields the static fallback plan.
C8_EmptyInitiativesYieldFallback == EmptySection("i") => YieldsFallback

\* C8, amended: a text whose plan field parses to an empty array, with
\* executive_summary and financial_breakdown present, does not fail: it
\* yields the static fallback plan, which has at least one initiative and
\* whose notes say that it is a fallback plan.
C8_EmptyPlanYieldsFallback == EmptySection("p") => YieldsFallback

\* the fenced text with an empty plan was recovered as the fallback plan
C8_Witness ==
    /\ EmptySection("p")
    /\ "fence" \in corruption.applied
    /\ recovered.fallback

---------------------------------------------------------------------------
(* Claims about validateAndCorrectPlan                                     *)

\* validateAndCorrectPlan ran its checks against a payload
Reconciled == validation.done /\ valPlan.planIsArray

\* C9: for a payload produced by the generator, a monthly-lift finding is
\* emitted if and only if the lifts of the initiatives sum to more than
\* 500 away from payload.summaryMetrics.monthlyRevenueDelta.
C9_MonthlyLiftAgainstDelta ==
    (Reconciled /\ valSource = "generator") =>
        ("monthly-lift" \in validation.result.issues
         <=> Abs(SumField(valPlan.plan, "expected_monthly_revenue_lift")
                 - valPayload.summaryMetrics.monthlyRevenueDelta) > 500)

\* C10 as stated: an investment finding is emitted exactly when the total
\* investment of the plan's financial_breakdown differs from
\* payload.summaryMetrics.totalInvestment by more than 1% of the latter.
C10_InvestmentAgainstPlan ==
    (/\ Reconciled
     /\ valPlan.financial_breakdown # <<>>
     /\ Get(valPayload.summaryMetrics, "totalInvestment") > 0) =>
        ("investment" \in validation.result.issues
         <=> 100 * Abs(valPlan.financial_breakdown[1].totalInvestment[1]
                       - valPayload.summaryMetrics.totalInvestment)
             > valPayload.summaryMetrics.totalInvestment)

\* the investment the user entered, as the payload records it:
\* userInputs.totalInvestment, else userPreferences.maxInvestment, else 0
EnteredInvestment ==
    IF /\ "userInputs" \in DOMAIN valPayload
       /\ Get(valPayload.userInputs, "totalInvestment") # 0
    THEN valPayload.userInputs.totalInvestment
    ELSE IF "userPreferences" \in DOMAIN valPayload
         THEN Get(valPayload.userPreferences, "maxInvestment")
         ELSE 0

\* C10, amended: an investment finding is emitted exactly when the payload
\* records an investment entered by the user, its
\* summaryMetrics.totalInvestment is positive and the two differ by more
\* than 1% of the entered investment; the plan has no part in it.
C10_InvestmentAgainstEntered ==
    Reconciled =>
        ("investment" \in validation.result.issues
         <=> /\ EnteredInvestment > 0
             /\ Get(valPayload.summaryMetrics, "totalInvestment") > 0
             /\ 100 * Abs(valPayload.summaryMetrics.totalInvestment
                           - EnteredInvestment) > EnteredInvestment)

\* an investment finding was emitted for a difference between 1% and 5%
C10_Witness ==
    /\ Reconciled
    /\ "investment" \in validation.result.issues
    /\ valPayload.summaryMetrics.totalInvestment = 56000
    /\ EnteredInvestment = 55000

---------------------------------------------------------------------------
(* Claims about the jobs                                                   *)

\* no handler, worker or store operation is under way
Quiescent == \A j \in JobIds : job[j].pc \in {"idle", "done", "crashed"}

\* C4: every submitted job eventually has a terminal record under
\* plans/{jobId}.  Once every handler and worker has run to its end no
\* record changes any more, so every job that was submitted then has a
\* terminal record; stated for the handler that writes with dbSet.
C4_TerminalRecordPersisted ==
    (Quiescent /\ deployment.handler = "dbSet") =>
        \A j \in JobIds :
            job[j].pc = "done" => plans[j].status \in {"complete", "error"}

\* C5: the findings attached to the plan of a completed job are computed
\* against the payload that was submitted for that job.
C5_FindingsAgainstOwnPayload ==
    \A j \in JobIds :
        client[j].shown = "plan" =>
            client[j].validatedAgainst = client[j].payload

---------------------------------------------------------------------------
(* Claims about the upstream call                                          *)

\* the record is complete and its plan is the static fallback plan
CarriesFallbackPlan(record) ==
    /\ record.status = "complete"
    /\ record.planLength = Len(generateFallbackPlan.plan)

\* the worker of job j has handed the fallback plan to the store
FallbackHandedOver(j) ==
    /\ job[j].pc \in {"set", "write"}
    /\ job[j].next = "done"
    /\ CarriesFallbackPlan(job[j].writing)

C12_ExhaustedRetriesAttachFallback ==
    \A j \in JobIds :
        (/\ job[j].pc = "done"
         /\ job[j].retryCount = MAX_RETRIES
         /\ job[j].writing.status = "error") =>
            /\ job[j].writing.error # "none"
            /\ job[j].writing.planLength = Len(generateFallbackPlan.plan)

\* the statuses of the auth, quota and bad-request class
NonRetryableStatuses == {400, 401, 402, 404}

\* C13: a response with a non-retryable status makes the job terminal with
\* status error at once: the error record is handed to the store, no retry
\* is attempted and no backoff delay is waited, so that a job whose first
\* response is of this class has made exactly one upstream request.
C13_NonRetryableIsTerminalAtOnce ==
    [][\A j \in JobIds : \A status \in NonRetryableStatuses :
          (/\ deployment.handler = "dbSet"
           /\ job[j].pc = "fetch"
           /\ ResponseNotOk(j, status)) =>
              /\ job'[j].retryCount = job[j].retryCount
              /\ job'[j].delays = job[j].delays
              /\ job'[j].pc = "set"
              /\ job'[j].next = "done"
              /\ job'[j].writing.status = "error"]_vars

\* a job is done with the error of a status after one request and no delay
C13_Witness ==
    \E j \in JobIds :
        /\ job[j].pc = "done"
        /\ plans[j].status = "error"
        /\ plans[j].error = "openrouter-error"
        /\ job[j].retryCount = 0
        /\ job[j].delays = <<>>

---------------------------------------------------------------------------
(* Claims about the sums and the ranking of generatePayload                *)

\* the input as generatePayload ranks it
Ranked == SortByImpact(processedDataOf(rawData))

\* C14: summaryMetrics.monthlyRevenueDelta is the summed monthly impact of
\* the selected top-6 records, otherItemsSummary.combinedMonthlyImpact is
\* the summed monthly impact of the records outside the driver list (both
\* in whole units); for the canonical 19-record input they are 12132 and
\* 6809 and their sum is 18941.
C14_CanonicalSums ==
    genResult = "payload" =>
        /\ payload.summaryMetrics.monthlyRevenueDelta =
              MathRound12(SumImpact12(
                  SubSeq(Ranked, 1, Min(6, Len(rawData)))))
        /\ payload.otherItemsSummary.combinedMonthlyImpact =
              MathRound12(SumImpact12(
                  SubSeq(Ranked, Min(8, Len(rawData)) + 1, Len(rawData))))
        /\ rawData = sampleRawData =>
              /\ payload.summaryMetrics.monthlyRevenueDelta = 12132
              /\ payload.otherItemsSummary.combinedMonthlyImpact = 6809
              /\ payload.summaryMetrics.monthlyRevenueDelta
                 + payload.otherItemsSummary.combinedMonthlyImpact = 18941

\* a payload was generated with a positive investment and a positive
\* included lift
HasReturn ==
    /\ genResult = "payload"
    /\ payload.overallFinancials.totalInvestment > 0
    /\ payload.summaryMetrics.estimatedAnnualDelta > 0

\* the payload of the two records a and b with investment 55000
ScenarioFinancials ==
    (rawData = ScenarioRawData /\ userPreferences.maxInvestment = 55000) =>
        /\ payload.topDrivers[1].monthlyRevenueImpact = 10000
        /\ payload.topDrivers[2].monthlyRevenueImpact = 1000
        /\ payload.topDrivers[1].included
        /\ payload.topDrivers[2].included
        /\ payload.summaryMetrics.monthlyRevenueDelta = 11000
        /\ payload.overallFinancials.roi = Num(2400)
        /\ payload.overallFinancials.paybackMonths = Num(50)

\* C17 as stated: with investment > 0 and included monthly lift > 0,
\* roi = (monthlyLift * 12) / investment * 100 and
\* paybackMonths = investment / monthlyLift, and the payload of the
\* records a and b has the stated values.  Amounts are in tenths; the
\* annual lift is monthlyLift * 12.
C17_RoiAndPaybackExact ==
    HasReturn =>
        LET investment == payload.overallFinancials.totalInvestment
            annualLift == payload.summaryMetrics.estimatedAnnualDelta
            roi == payload.overallFinancials.roi
            paybackMonths == payload.overallFinancials.paybackMonths
        IN  /\ roi.kind = "number"
            /\ roi.tenths * investment = annualLift * 1000
            /\ paybackMonths.kind = "number"
            /\ paybackMonths.tenths * annualLift = investment * 120
            /\ ScenarioFinancials

\* C17, amended: with investment > 0 and included monthly lift > 0, roi
\* is (monthlyLift * 12) / investment * 100 rounded to one decimal and
\* paybackMonths is investment / monthlyLift rounded to one decimal, and
\* the payload of the records a and b has the stated values.
C17_RoiAndPaybackToOneDecimal ==
    HasReturn =>
        LET investment == payload.overallFinancials.totalInvestment
            annualLift == payload.summaryMetrics.estimatedAnnualDelta
            roi == payload.overallFinancials.roi
            paybackMonths == payload.overallFinancials.paybackMonths
        IN  /\ roi.kind = "number"
            /\ 2 * Abs(roi.tenths * investment - annualLift * 1000)
               <= investment
            /\ paybackMonths.kind = "number"
            /\ 2 * Abs(paybackMonths.tenths * annualLift - investment * 120)
               <= annualLift
            /\ ScenarioFinancials

\* the payload of the records a and b was generated with investment 55000
C17_Witness ==
    /\ HasReturn
    /\ rawData = ScenarioRawData
    /\ payload.overallFinancials.totalInvestment = 55000
    /\ payload.overallFinancials.roi = Num(2400)

\* topDrivers are the min(8, n) highest-ranked records and count is the
\* number of the remaining records
TopEightPublished(ranked) ==
    /\ Len(payload.topDrivers) = Min(8, Len(rawData))
    /\ \A i \in 1..Len(payload.topDrivers) :
          /\ payload.topDrivers[i].id = ranked[i].id
          /\ payload.topDrivers[i].annualRevenueImpact
             = ranked[i].annualRevenueImpact
    /\ \A i \in 1..Min(8, Len(ranked)) : \A k \in 9..Len(ranked) :
          ranked[i].monthlyRevenueImpact12 >= ranked[k].monthlyRevenueImpact12
    /\ payload.otherItemsSummary.count = Len(rawData) - Min(8, Len(rawData))

\* the summed monthlyDelta of the records outside topDrivers, in twelfths
RemainderImpact12(ranked) ==
    SumImpact12(SubSeq(ranked, Min(8, Len(ranked)) + 1, Len(ranked)))

---------------------------------------------------------------------------
(* Claims about the modes of the validator                                 *)

\* the payload states metadata.financial_mode = "revenue_only"
RevenueOnlyMode ==
    /\ valPayload # UndefinedPayload
    /\ "metadata" \in DOMAIN valPayload
    /\ "financial_mode" \in DOMAIN valPayload.metadata
    /\ valPayload.metadata.financial_mode = "revenue_only"

\* the findings of the checks that need per-service costs
CostFindings ==
    {"one-time-cost", "recurring-cost", "roi-format", "roi-calculation",
     "negative-costs", "roi-high", "breakdown-one-time-cost",
     "breakdown-recurring-cost", "payback-period"}

\* the findings about the monthly lift, and the note about cost fields
LiftFindings ==
    {"monthly-lift", "breakdown-monthly-lift", "invalid-lift",
     "cost-fields-present"}

HasCostField(initiative) ==
    initiative.one_time_cost # <<>> \/ initiative.recurring_annual_cost # <<>>

HasInvalidLift(initiative) ==
    \/ initiative.expected_monthly_revenue_lift = <<>>
    \/ initiative.expected_monthly_revenue_lift[1] < 0

IsNegative(field) == field # <<>> /\ field[1] < 0

\* the findings that report a negative amount
NonNegativityFindings == {"negative-costs", "invalid-lift"}

\* C16: a plan with an initiative whose one_time_cost, recurring_annual_cost
\* or expected_monthly_revenue_lift is negative gets a non-negativity
\* finding when the payload is not in revenue_only mode; in revenue_only
\* mode a negative expected_monthly_revenue_lift gets one
C16_NegativeAmountsAreReported ==
    (Reconciled /\ valPayload # UndefinedPayload) =>
        \A i \in 1..Len(valPlan.plan) :
            LET initiative == valPlan.plan[i]
                negativeLift ==
                    IsNegative(initiative.expected_monthly_revenue_lift)
                negativeCost ==
                    \/ IsNegative(initiative.one_time_cost)
                    \/ IsNegative(initiative.recurring_annual_cost)
            IN  (IF RevenueOnlyMode THEN negativeLift
                 ELSE negativeLift \/ negativeCost)
                    => validation.result.issues \cap NonNegativityFindings
                           # {}

---------------------------------------------------------------------------
(* Claims about the job store and the status query                         *)

\* the first set of job j (the pending record) has returned
PendingSetReturned(j) ==
    /\ job[j].pc # "idle"
    /\ ~(job[j].pc \in {"set", "write"} /\ job[j].next = "worker")

\* C20: on the local file store, once the set calls of two jobs (two
\* different keys under plans/) have both returned, the file holds a
\* record under both keys, however the two calls overlapped
C20_OverlappingSetsKeepBoth ==
    deployment.backend = "local" =>
        \A j, k \in JobIds :
            (j # k /\ PendingSetReturned(j) /\ PendingSetReturned(k))
                => plans[j] # NoRecord /\ plans[k] # NoRecord

\* the step of job j after which the handler answers with the job id: the
\* set of the pending record returns
HandlerAnswers(j) ==
    /\ job[j].pc \in {"set", "write"}
    /\ job[j].next = "worker"
    /\ job'[j].pc = "worker"

\* C19: the handler answers with the job id before any request to the
\* upstream is made and only once the pending record is in the store; from
\* then on a status query for the job never answers not_found
C19_StatusQueryFindsJob ==
    /\ [][\A j \in JobIds :
             HandlerAnswers(j) =>
                 /\ plans'[j] = PendingRecord
                 /\ job'[j].retryCount = 0
                 /\ job'[j].delays = <<>>]_vars
    /\ [](\A j \in JobIds :
             PendingSetReturned(j) => checkPlanStatus(j) # "not_found")

---------------------------------------------------------------------------
(* Claims about the structural repair                                      *)

\* parseAIResponse was called on a text that is not empty
Recovered == recovered.outcome # "none" /\ aiResponse # <<>>

\* C21: a candidate region that parses as it is reaches the structural
\* validation unchanged: the structural repair appends nothing to it and
\* trims nothing from it, also when a string value of it holds a brace or
\* a bracket
C21_ValidTextIsNotRepaired ==
    (Recovered /\ JSONparse(recovered.cleanedResponse).ok)
        => /\ recovered.repairedResponse = recovered.cleanedResponse
           /\ recovered.parsed

\* the text is the well-formed document doc cut off right after a complete
\* value, so that only closing braces and brackets are missing
TruncatedAfterValue(doc) ==
    /\ corruption.applied = {}
    /\ corruption.cut > 0
    /\ aiResponse # <<>>
    /\ JSONparse(doc).ok
    /\ Len(doc) = Len(aiResponse) + corruption.cut
    /\ SubSeq(doc, 1, Len(aiResponse)) = aiResponse
    /\ \A i \in (Len(aiResponse) + 1)..Len(doc) : doc[i] \in {"}", "]"}
    /\ aiResponse[Len(aiResponse)] \notin {"{", "["}

\* C22: when a well-formed document is cut off right after a complete
\* value and only closers are missing, the repair appends the missing
\* closers in the order of the nesting, keeps every character that was
\* received, and the repaired text parses
C22_ClosersAppendedInNestingOrder ==
    \A doc \in UpstreamDocuments :
        (Recovered /\ TruncatedAfterValue(doc))
            => /\ recovered.repairedResponse = doc
               /\ recovered.parsed

---------------------------------------------------------------------------
(* Claims about the life of a job record                                   *)

TerminalStatuses == {"complete", "error"}

\* C23: the stored status of a job only moves from no record to pending
\* (once, at submission) and from pending to complete or to error (once):
\* a terminal record is never replaced by a record of another status and
\* a record never disappears
C23_StatusMovesForwardOnly ==
    [][\A j \in JobIds :
          plans'[j].status # plans[j].status =>
              \/ plans[j].status = "none" /\ plans'[j].status = "pending"
              \/ /\ plans[j].status = "pending"
                 /\ plans'[j].status \in TerminalStatuses]_vars

---------------------------------------------------------------------------
(* Claims about the bounds of retrying and polling                         *)

\* the waits before the first, second and third retry, in milliseconds
BackoffDelays == <<1000, 2000, 4000>>

\* the upstream requests job j has issued so far: the first one and one
\* per retry
UpstreamRequests(j) ==
    IF job[j].pc = "fetch" \/ job[j].retryCount > 0
    THEN job[j].retryCount + 1 ELSE 0

\* C24: a job issues at most MAX_RETRIES + 1 = 4 upstream requests,
\* whatever mix of rejected fetches and retryable statuses occurs, and the
\* wait before the k-th retry is RETRY_DELAY times 2 to the k - 1: 1000,
\* 2000, 4000 ms
C24_RequestsAndBackoffBounded ==
    \A j \in JobIds :
        /\ UpstreamRequests(j) <= MAX_RETRIES + 1
        /\ UpstreamRequests(j) <= 4
        /\ Len(job[j].delays) = job[j].retryCount
        /\ \A k \in 1..Len(job[j].delays) :
              /\ job[j].delays[k] = RETRY_DELAY * Pow2(k - 1)
              /\ job[j].delays[k] = BackoffDelays[k]

\* a job has used up its retries and writes the error record: four
\* requests were issued, after waits of 1000, 2000 and 4000 ms
C24_Witness ==
    \E j \in JobIds :
        /\ job[j].retryCount = MAX_RETRIES
        /\ job[j].delays = BackoffDelays
        /\ job[j].pc = "set"
        /\ job[j].writing.status = "error"

\* C25: pollForPlan stops polling and resolves after at most maxPolls = 30
\* status checks, whatever the status endpoint answers, a job that stays
\* pending included: there is no 31st check, and once the 30th check is
\* answered the call has resolved
C25_PollingEndsAtMaxPolls ==
    \A j \in JobIds :
        /\ client[j].pollCount <= maxPolls
        /\ (client[j].pollCount = maxPolls /\ client[j].inFlight = 0)
               => client[j].pc = "resolved"

\* C26: within one pollForPlan call the plan is displayed at most once,
\* also when several status requests are awaiting their answers at the
\* same time
C26_PlanDisplayedOnce == \A j \in JobIds : client[j].displays <= 1

---------------------------------------------------------------------------
(* Claims about the published sums and the order of the drivers            *)

\* the annual impacts of the included drivers of a payload, summed
RECURSIVE SumIncludedAnnual(_)
SumIncludedAnnual(drivers) ==
    IF drivers = <<>> THEN 0
    ELSE (IF Head(drivers).included
          THEN Head(drivers).annualRevenueImpact ELSE 0)
         + SumIncludedAnnual(Tail(drivers))

\* C27, as stated: summaryMetrics.monthlyRevenueDelta equals exactly the sum
\* of the published, rounded monthlyRevenueImpact of the topDrivers whose
\* included flag is true
C27_DeltaIsSumOfPublished ==
    genResult = "payload" =>
        payload.summaryMetrics.monthlyRevenueDelta
            = SumIncludedPublished(payload.topDrivers)

\* C27, amended: summaryMetrics.monthlyRevenueDelta is the sum of the
\* unrounded monthly impacts (a twelfth of the annual impact) of the
\* included topDrivers, rounded once to the nearest whole unit; it is
\* within half a unit per included driver of the sum of the published values
C27_DeltaIsRoundedSum ==
    genResult = "payload" =>
        LET delta == payload.summaryMetrics.monthlyRevenueDelta
            drivers == payload.topDrivers
        IN  /\ 12 * delta - SumIncludedAnnual(drivers) \in -5..6
            /\ 2 * Abs(delta - SumIncludedPublished(drivers))
                   <= NumIncluded(drivers)

\* a payload with several included drivers whose published impacts do not
\* add up to the published delta
C27_Witness ==
    /\ genResult = "payload"
    /\ NumIncluded(payload.topDrivers) >= 2
    /\ payload.summaryMetrics.monthlyRevenueDelta
          # SumIncludedPublished(payload.topDrivers)

\* every record of the input has an id of its own
UniqueIds ==
    \A i, k \in 1..Len(rawData) : rawData[i].id = rawData[k].id => i = k

\* the place in the input of the record with that id
PositionOf(id) == CHOOSE i \in 1..Len(rawData) : rawData[i].id = id

\* C28, as stated: topDrivers are in descending order of the rounded
\* monthlyDelta = round(additionalValue / 12), and records of equal rounded
\* monthlyDelta keep their input order
C28_RankedByRoundedDelta ==
    (genResult = "payload" /\ UniqueIds) =>
        LET drivers == payload.topDrivers
        IN  \A i, k \in 1..Len(drivers) :
                i < k =>
                    \/ drivers[i].monthlyRevenueImpact
                          > drivers[k].monthlyRevenueImpact
                    \/ /\ drivers[i].monthlyRevenueImpact
                             = drivers[k].monthlyRevenueImpact
                       /\ PositionOf(drivers[i].id) < PositionOf(drivers[k].id)

\* C28, amended: topDrivers are the min(8, n) first records in descending
\* order of the unrounded additionalValue / 12, records of equal unrounded
\* value keep their input order, and the published monthlyRevenueImpact is
\* that value rounded
C28_RankedByExactDelta ==
    (genResult = "payload" /\ UniqueIds) =>
        LET drivers == payload.topDrivers
            published == {drivers[i].id : i \in 1..Len(drivers)}
            Before(a, b) ==
                \/ rawData[a].additionalValue > rawData[b].additionalValue
                \/ /\ rawData[a].additionalValue = rawData[b].additionalValue
                   /\ a < b
        IN  /\ Len(drivers) = Min(TopDriversMax, Len(rawData))
            /\ \A i \in 1..Len(drivers) :
                  /\ drivers[i].id \in {rawData[a].id : a \in 1..Len(rawData)}
                  /\ drivers[i].monthlyRevenueImpact =
                        MathRound12(
                            rawData[PositionOf(drivers[i].id)].additionalValue)
            /\ \A i, k \in 1..Len(drivers) :
                  i < k => Before(PositionOf(drivers[i].id),
                                  PositionOf(drivers[k].id))
            /\ \A i \in 1..Len(drivers), b \in 1..Len(rawData) :
                  rawData[b].id \notin published
                      => Before(PositionOf(drivers[i].id), b)

\* two published drivers of the same rounded impact stand in the reverse
\* of their input order, and two of the same exact impact in input order
C28_Witness ==
    /\ genResult = "payload"
    /\ UniqueIds
    /\ \E i, k \in 1..Len(payload.topDrivers) :
          /\ i < k
          /\ payload.topDrivers[i].monthlyRevenueImpact
                = payload.topDrivers[k].monthlyRevenueImpact
          /\ PositionOf(payload.topDrivers[i].id)
                > PositionOf(payload.topDrivers[k].id)

---------------------------------------------------------------------------
(* Claims about the records and the static plan                            *)

\* the numbers of one field of the initiatives of the static plan, summed
RECURSIVE SumOfInitiatives(_, _)
SumOfInitiatives(initiatives, field) ==
    IF initiatives = <<>> THEN 0
    ELSE Head(initiatives)[field]
         + SumOfInitiatives(Tail(initiatives), field)

\* C30: in the static fallback plan a stored record carries, the totals of
\* financial_breakdown (total_one_time_costs, total_recurring_costs,
\* total_monthly_revenue_lift) are the sums of one_time_cost,
\* recurring_annual_cost and expected_monthly_revenue_lift over the
\* initiatives of the plan
C30_FallbackTotalsAreSums ==
    \A j \in JobIds :
        (plans[j].status = "complete" /\ plans[j].fallback) =>
            LET plan == generateFallbackPlan
                breakdown == plan.financial_breakdown
            IN  /\ breakdown.total_one_time_costs
                      = SumOfInitiatives(plan.plan, "one_time_cost")
                /\ breakdown.total_recurring_costs
                      = SumOfInitiatives(plan.plan, "recurring_annual_cost")
                /\ breakdown.total_monthly_revenue_lift
                      = SumOfInitiatives(plan.plan,
                                         "expected_monthly_revenue_lift")

\* C29: a stored record with status complete holds a plan with a non-empty
\* executive_summary, a non-empty array of initiatives and a
\* financial_breakdown; a record with status error holds an error message
\* and no plan; a pending record holds neither a plan nor an error
C29_RecordsAreWellFormed ==
    \A j \in JobIds :
        LET record == plans[j]
        IN  /\ record.status = "complete" =>
                  /\ record.sections = {"e", "p", "f"}
                  /\ record.planLength > 0
                  /\ record.error = "none"
            /\ record.status = "error" =>
                  /\ record.error # "none"
                  /\ record.sections = {}
                  /\ record.planLength = 0
                  /\ ~record.fallback
            /\ record.status = "pending" =>
                  /\ record.error = "none"
                  /\ record.sections = {}
                  /\ record.planLength = 0

\* the store holds at once a complete record whose plan the upstream wrote,
\* and an error record for a document without the plan section
C29_Witness ==
    \E j, k \in JobIds :
        /\ plans[j].status = "complete"
        /\ ~plans[j].fallback
        /\ plans[k].status = "error"
        /\ plans[k].error = "missing-sections"

====
